---- MODULE Spec2Model ----
(***************************************************************************)
(* A model of @effect-ts/process: the Command model and its executor       *)
(* (Command/index.ts), the Process handle (Process/index.ts, the revision  *)
(* whose Process carries stdin/stdout/stderr, lines 237-560), the          *)
(* CommandError classification (ProcessStream/index.ts lines 86-285 and    *)
(* Internal/SystemError/index.ts) and ExitCode (unnamed/part_000).         *)
(*                                                                         *)
(* The byte path between two stages and the decoders come from            *)
(* Internal/Transducer/index.ts.                                           *)
(*                                                                         *)
(* The specifications share the variables:                                 *)
(*   SpecClassify  the refinement of a spawn-time error into a CommandError*)
(*   SpecProc      one child process: start, exit, signals, and the fibers *)
(*                 that call exitCode, successfulExitCode, kill, isAlive   *)
(*   SpecRun       Command.run on a Command tree, single or piped          *)
(*   SpecPipe      the bytes of one stage's stdout drained into the next   *)
(*                 stage's stdin                                           *)
(*   SpecSplit     the line splitter over a chunked text                   *)
(*   SpecDecode    the UTF-8 decoder over a chunked byte stream            *)
(*   SpecMerge     stdout and stderr of one process merged into one source *)
(*   SpecSeparate  stdout and stderr of one process consumed concurrently  *)
(*   SpecTree      the constructors and combinators on Command trees       *)
(*   SpecTwice     several runs of one Command                             *)
(*   SpecLines     the stdout of a process read as lines                   *)
(*   SpecCancel    a pipeline whose exit-code wait is interrupted          *)
(***************************************************************************)
EXTENDS Integers, Sequences, FiniteSets, TLC

VARIABLES
    u,            \* SpecClassify: the value raised on the error channel
    refined,      \* SpecClassify: what refineOrDie made of it
    command,      \* SpecProc: the StandardCommand handed to start
    spawned,      \* SpecProc: what spawn() returned / the OS did at spawn
    proc,         \* SpecProc: the fields of the NodeJS ChildProcess
    sent,         \* SpecProc: signals delivered to the child by proc.kill
    startResult,  \* SpecProc: the outcome of the start effect
    fiber,        \* SpecProc: the fibers operating on the Process
    nextRef,      \* SpecProc: next object identity handed out by `new`
    cmd,          \* SpecRun: the Command given to run
    frames,       \* SpecRun: the invocations of run made so far
    runResult,    \* SpecRun: the outcome of the caller's run effect
    pipe,         \* SpecPipe: producer, PassThrough, stream, sink, consumer
    splitter,     \* SpecSplit: the text, its chunks and the splitter's state
    decoder,      \* SpecDecode: the bytes, their chunks and the decoder's state
    merged,       \* SpecMerge: the two OS streams and the PassThrough
    separate,     \* SpecSeparate: the two OS streams, each with its PassThrough
    tree,         \* SpecTree: a Command tree and the combinator applied to it
    runs,         \* SpecTwice: the Processes of two runs of one Command
    reader,       \* SpecLines: the stdout bytes, their chunks and the lines
    pipeline      \* SpecCancel: the stage processes and the waiting fiber

classifyVars == <<u, refined>>
procVars == <<command, spawned, proc, sent, startResult, fiber, nextRef>>
runVars == <<cmd, frames, runResult>>
streamVars == <<pipe, splitter, decoder, merged>>
lastVars == <<reader, pipeline>>
moreVars == <<separate, tree, runs, reader, pipeline>>
vars == <<u, refined, command, spawned, proc, sent, startResult, fiber,
          nextRef, cmd, frames, runResult, pipe, splitter, decoder, merged,
          separate, tree, runs, reader, pipeline>>

\* The value of a variable in the specifications that do not use it.
Unused == [tag |-> "unused"]

LastUnused == reader = Unused /\ pipeline = Unused

MoreUnused ==
    separate = Unused /\ tree = Unused /\ runs = Unused /\ LastUnused

StreamsUnused ==
    /\ pipe = Unused /\ splitter = Unused /\ decoder = Unused /\ merged = Unused
    /\ MoreUnused

----------------------------------------------------------------------------
(* Option (the @effect-ts/core Option used by the source)                  *)

None == [tag |-> "None"]

Some(x) == [tag |-> "Some", value |-> x]

isSome(o) == o.tag = "Some"

\* JavaScript null / undefined
Null == "null"

\* null in a field that otherwise holds a number (ChildProcess.exitCode)
NullCode == -1

----------------------------------------------------------------------------
(* Internal/SystemError and CommandError                                   *)

\* The error codes of NODEJS_SYSTEM_ERROR_CODES that the model tells apart.
NODEJS_SYSTEM_ERROR_CODES == {"ENOENT", "EACCES", "EPERM", "EIO"}

\* Codes an error may carry: none, a system error code, or a code that is
\* not in the list (a NodeJS internal code such as ERR_INVALID_ARG_TYPE).
ErrorCodes == NODEJS_SYSTEM_ERROR_CODES \cup {Null, "ERR_OTHER"}

\* The substrings of an error message that the refinements search for.
MessageTokens == {"ENOENT", "EACCES", "EPERM"}

\* A value on the error channel: whether it is an Error object, its `code`
\* property and the searched-for substrings its message contains.
Thrown == [isError : BOOLEAN, code : ErrorCodes, msg : SUBSET MessageTokens]

\* No error.
NoError == [isError |-> FALSE, code |-> Null, msg |-> {}]

\* The error NodeJS emits when the child cannot be spawned.
SpawnErrors == {e \in Thrown : e.isError}

isSystemError(e) ==
    /\ e.isError
    /\ e.code # Null
    /\ e.code \in NODEJS_SYSTEM_ERROR_CODES

\* message.indexOf(token) > -1
messageContains(e, token) == token \in e.msg

\* systemErrorToProperties / standardErrorToProperties: code is kept for a
\* system error and dropped for a plain Error.
errorProperties(e) ==
    [message |-> e.msg, code |-> IF isSystemError(e) THEN e.code ELSE Null]

IOError(e) == [tag |-> "IOError", props |-> errorProperties(e)]

ProgramNotFound(e) == [tag |-> "ProgramNotFound", props |-> errorProperties(e)]

PermissionDenied(e) == [tag |-> "PermissionDenied", props |-> errorProperties(e)]

NonZeroExitCode(ec) == [tag |-> "NonZeroExitCode", exitCode |-> ec]

WorkingDirectoryMissing(d) == [tag |-> "WorkingDirectoryMissing", directory |-> d]

CommandErrorTags ==
    {"IOError", "ProgramNotFound", "PermissionDenied", "NonZeroExitCode",
     "WorkingDirectoryMissing"}

isIOError(e) ==
    IF isSystemError(e) THEN Some(IOError(e))
    ELSE IF e.isError THEN Some(IOError(e))
    ELSE None

isProgramNotFound(e) ==
    IF isSystemError(e) /\ e.code = "ENOENT" THEN Some(ProgramNotFound(e))
    ELSE IF e.isError /\ messageContains(e, "ENOENT") THEN Some(ProgramNotFound(e))
    ELSE None

isPermissionDenied(e) ==
    IF isSystemError(e) /\ (e.code = "EACCES" \/ e.code = "EPERM")
        THEN Some(PermissionDenied(e))
    ELSE IF e.isError /\ (messageContains(e, "EACCES") \/ messageContains(e, "EPERM"))
        THEN Some(PermissionDenied(e))
    ELSE None

\* O.getFirstAssociative().combine: the first Some wins.
combineFirst(x, y) == IF isSome(x) THEN x ELSE y

\* The partial function start hands to T.refineOrDie.
startRefineWrongOrder(e) ==
    combineFirst(isPermissionDenied(e),
                 combineFirst(isProgramNotFound(e), isIOError(e)))

startRefine(e) ==
    combineFirst(isProgramNotFound(e),
                 combineFirst(isPermissionDenied(e), isIOError(e)))

\* Outcomes of an effect.
Fail(e) == [tag |-> "fail", error |-> e]

Die == [tag |-> "die"]

Succeed(v) == [tag |-> "succeed", value |-> v]

Pending == [tag |-> "pending"]

Interrupted == [tag |-> "interrupted"]

\* T.refineOrDie on a failure: keep the error the partial function accepts,
\* turn every other failure into a defect.
refineOrDie(o) == IF isSome(o) THEN Fail(o.value) ELSE Die

----------------------------------------------------------------------------
(* ExitCode (unnamed/part_000)                                             *)

\* Largest exit status the modelled child may report.
MaxExitCode == 2

ExitStatuses == 0..MaxExitCode

\* new ExitCode(code): a class instance. `ref` is the identity of the
\* object, which is what === on two instances compares.
ExitCode(code, ref) == [code |-> code, ref |-> ref]

Success == ExitCode(0, 0)

Failure == ExitCode(1, 1)

\* Identities below this one belong to the module-level constants.
FirstFreshRef == 2

\* a === b on two ExitCode instances
strictEquals(a, b) == a.ref = b.ref

----------------------------------------------------------------------------
(* ProcessOutput, ProcessInput and the StandardCommand record              *)

ProcessOutputs == {"Pipe", "Inherit", "Redirect"}

\* PO.toStdioOption: only a Pipe makes NodeJS create the child's stream.
toStdioOption(o) ==
    CASE o = "Inherit" -> "inherit"
      [] o = "Pipe" -> "pipe"
      [] o = "Redirect" -> "stream"

\* PI.inherit: no source.
PIinherit == [source |-> None]

\* PI.fromStream / PI.fromString: a source; s names the bytes or the stream.
PIfrom(s) == [source |-> Some(s)]

StandardCommand(name, args, env, wd, in, out, err, merge) ==
    [tag |-> "StandardCommand", command |-> name, args |-> args, env |-> env,
     workingDirectory |-> wd, stdin |-> in, stdout |-> out, stderr |-> err,
     redirectErrorStream |-> merge]

\* Command.command(processName, ...args)
mkCommand(processName, args) ==
    StandardCommand(processName, args, <<>>, None, PIinherit, "Pipe", "Pipe", FALSE)

\* No Command has been given to run.
NoCommand == [tag |-> "None"]

\* Before spawn() has been called there is no ChildProcess.
NoChildProcess ==
    [spawnfile |-> "", spawnargs |-> <<>>,
     pid |-> FALSE, handle |-> FALSE, exitCode |-> NullCode, signalCode |-> Null,
     killed |-> FALSE, stdin |-> FALSE, stdout |-> FALSE, stderr |-> FALSE]

NotSpawned == [called |-> FALSE, pid |-> FALSE, error |-> NoError]

----------------------------------------------------------------------------
(* SpecClassify: classification of one error value                         *)

InitClassify ==
    /\ u \in Thrown
    /\ refined = Pending
    /\ command = Null /\ spawned = NotSpawned /\ proc = NoChildProcess
    /\ sent = {}
    /\ startResult = Pending /\ fiber = <<>> /\ nextRef = 0
    /\ cmd = NoCommand /\ frames = <<>> /\ runResult = Pending
    /\ StreamsUnused

Classify ==
    /\ refined = Pending
    /\ refined' = refineOrDie(startRefine(u))
    /\ UNCHANGED <<u, procVars, runVars, streamVars, moreVars>>

NextClassify == Classify

SpecClassify == InitClassify /\ [][NextClassify]_vars

\* What the claim expects of an Error e: first match in the order
\* ProgramNotFound, PermissionDenied, IOError.
ExpectedTag(e) ==
    IF e.code = "ENOENT" \/ "ENOENT" \in e.msg THEN "ProgramNotFound"
    ELSE IF e.code \in {"EACCES", "EPERM"} \/ e.msg \cap {"EACCES", "EPERM"} # {}
        THEN "PermissionDenied"
    ELSE "IOError"

\* C8: a spawn-time OS error is refined into exactly one CommandError, the
\* first that matches in the order ProgramNotFound, PermissionDenied, IOError.
C8_FirstMatchWins ==
    (refined # Pending /\ u \in SpawnErrors) =>
        /\ refined.tag = "fail"
        /\ refined.error.tag = ExpectedTag(u)
        /\ refined.error.props.message = u.msg

\* An error that matches both ProgramNotFound and PermissionDenied has been
\* classified.
C8_Witness ==
    /\ refined # Pending
    /\ u.isError /\ u.code = "EACCES" /\ "ENOENT" \in u.msg
    /\ refined.error.tag = "ProgramNotFound"

----------------------------------------------------------------------------
(* SpecProc: one child process and the fibers that hold its Process        *)

\* Number of fibers that operate on the Process.
NumFibers == 2

Fibers == 1..NumFibers

Signals == {"SIGTERM", "SIGKILL", "SIGINT"}

\* The errors NodeJS reports for a failed spawn: a system error whose
\* message ends with its code ("spawn prog ENOENT").
OsSpawnErrors ==
    {e \in SpawnErrors : isSystemError(e) /\ e.msg = {e.code} \cap MessageTokens}

\* The commands start is tried on: every stdio routing, merged or not.
ProcCommands ==
    {StandardCommand("sleep", <<"20">>, <<>>, None, PIinherit, out, err, merge) :
        out \in ProcessOutputs, err \in ProcessOutputs, merge \in BOOLEAN}

\* The ChildProcess returned by spawn(): the three stdio options decide
\* which of its streams exist. `handle` is the OS process handle, dropped
\* when the exit is reported.
ChildProcess(c) ==
    [spawnfile |-> c.command, spawnargs |-> c.args,
     pid |-> TRUE, handle |-> TRUE, exitCode |-> NullCode, signalCode |-> Null,
     killed |-> FALSE,
     stdin |-> TRUE,
     stdout |-> (toStdioOption(c.stdout) = "pipe"),
     stderr |-> (toStdioOption(c.stderr) = "pipe")]

\* new Process(proc, stdinSink, stdoutStream, stderrStream): the stderr
\* source is S.empty when the error stream is merged into stdout. The
\* child is named by what it was spawned with.
Process(c) ==
    [spawnfile |-> c.command, spawnargs |-> c.args,
     stdin |-> "sink", stdout |-> "stdout",
     stderr |-> IF c.redirectErrorStream THEN "empty" ELSE "stderr"]

\* The part of start that runs once a pid is known: the three sanity
\* checks resume with a defect, otherwise the Process is built.
startWithPid(c, p) ==
    IF ~p.stdin \/ ~p.stderr \/ ~p.stdout THEN Die ELSE Succeed(Process(c))

\* start, registration: spawn() is called. Either the OS assigns a pid and
\* the effect is resumed at once, or no pid is assigned and the error is
\* emitted later.
start ==
    /\ ~spawned.called
    /\ \/ /\ spawned' = [called |-> TRUE, pid |-> TRUE, error |-> NoError]
          /\ proc' = ChildProcess(command)
          /\ startResult' = startWithPid(command, ChildProcess(command))
       \/ \E e \in OsSpawnErrors :
             /\ spawned' = [called |-> TRUE, pid |-> FALSE, error |-> e]
             /\ proc' = NoChildProcess
             /\ startResult' = Pending
    /\ UNCHANGED <<command, sent, fiber, nextRef, classifyVars, runVars, streamVars, moreVars>>

\* start, the "error" listener: resume(T.fail(err)), refined by refineOrDie.
startError ==
    /\ spawned.called
    /\ ~spawned.pid
    /\ startResult = Pending
    /\ startResult' = refineOrDie(startRefine(spawned.error))
    /\ UNCHANGED <<command, spawned, proc, sent, fiber, nextRef,
                   classifyVars, runVars, streamVars, moreVars>>

\* The fibers hold the Process once start has succeeded.
HasProcess == startResult.tag = "succeed"

Idle == [op |-> "idle", signal |-> Null, result |-> Pending]

Waiting(f) == fiber[f].op # "idle" /\ fiber[f].result = Pending

\* ChildProcess.kill(signal): the signal is delivered and `killed` set only
\* while the handle is live; afterwards the call does nothing.
\* `delivered` is the set of signals the child has been sent so far.
nodeKill(p, delivered, signal) ==
    IF p.handle
    THEN [proc |-> [p EXCEPT !.killed = TRUE], sent |-> delivered \cup {signal}]
    ELSE [proc |-> p, sent |-> delivered]

\* isAlive: exitCode == null && signalCode == null && !killed
isAliveNoKilled(p) == p.exitCode = NullCode /\ p.signalCode = Null

isAlive(p) == p.exitCode = NullCode /\ p.signalCode = Null /\ ~p.killed

\* A fiber runs Process.isAlive: it returns at once.
callIsAlive(f) ==
    /\ HasProcess
    /\ fiber[f].op = "idle"
    /\ fiber' = [fiber EXCEPT ![f] =
                    [op |-> "isAlive", signal |-> Null,
                     result |-> Succeed(isAlive(proc))]]
    /\ UNCHANGED <<command, spawned, proc, sent, startResult, nextRef,
                   classifyVars, runVars, streamVars, moreVars>>

\* What killSignal_ leaves its fiber with after registering: it stays
\* suspended until the "exit" listener resumes it.
killRegisteredFireAndForget(f, signal) ==
    [op |-> "kill", signal |-> signal, result |-> Succeed("unit")]

killRegistered(f, signal) ==
    [op |-> "kill", signal |-> signal, result |-> Pending]

\* killSignal_: send the signal, then wait for the "exit" event.
killSignal_(f, signal) ==
    /\ HasProcess
    /\ fiber[f].op = "idle"
    /\ proc' = nodeKill(proc, sent, signal).proc
    /\ sent' = nodeKill(proc, sent, signal).sent
    /\ fiber' = [fiber EXCEPT ![f] = killRegistered(f, signal)]
    /\ UNCHANGED <<command, spawned, startResult, nextRef, classifyVars, runVars, streamVars, moreVars>>

kill(f) == killSignal_(f, "SIGTERM")

killForcibly(f) == killSignal_(f, "SIGKILL")

killSignal(f, signal) == killSignal_(f, signal)

\* exitCode / successfulExitCode: register the "exit" listener and suspend.
exitCode(f) ==
    /\ HasProcess
    /\ fiber[f].op = "idle"
    /\ fiber' = [fiber EXCEPT ![f] =
                    [op |-> "exitCode", signal |-> Null, result |-> Pending]]
    /\ UNCHANGED <<command, spawned, proc, sent, startResult, nextRef,
                   classifyVars, runVars, streamVars, moreVars>>

successfulExitCode(f) ==
    /\ HasProcess
    /\ fiber[f].op = "idle"
    /\ fiber' = [fiber EXCEPT ![f] =
                    [op |-> "successfulExitCode", signal |-> Null,
                     result |-> Pending]]
    /\ UNCHANGED <<command, spawned, proc, sent, startResult, nextRef,
                   classifyVars, runVars, streamVars, moreVars>>

\* new Error(`Process interrupted due to receipt of signal: ${signal}`)
signalError(signal) == [isError |-> TRUE, code |-> Null, msg |-> {signal}]

\* The "exit" listener of exitCode, followed by refineOrDie(isIOError).
exitListenerCoerce(code, signal, ref) ==
    IF code # NullCode THEN Succeed(ExitCode(code, ref))
    ELSE Succeed(ExitCode(1, ref))

exitListenerZeroOnly(code, signal, ref) ==
    IF code # NullCode /\ code = 0 THEN Succeed(ExitCode(code, ref))
    ELSE refineOrDie(isIOError(signalError(signal)))

exitListener(code, signal, ref) ==
    IF code # NullCode THEN Succeed(ExitCode(code, ref))
    ELSE refineOrDie(isIOError(signalError(signal)))

\* T.filterOrElse_(exitCode, ec => ec === Success, ec => fail(NonZeroExitCode))
filterSuccess(r) ==
    IF r.tag = "succeed"
    THEN IF strictEquals(r.value, Success) THEN r
         ELSE Fail(NonZeroExitCode(r.value))
    ELSE r

resumeOnExitFirstOnly(f, code, signal) ==
    IF \E g \in Fibers : g < f /\ fiber[g].op # "idle" /\ fiber[g].result = Pending
    THEN Pending
    ELSE CASE fiber[f].op = "exitCode" ->
                 exitListener(code, signal, nextRef + f - 1)
           [] fiber[f].op = "successfulExitCode" ->
                 filterSuccess(exitListener(code, signal, nextRef + f - 1))
           [] fiber[f].op = "kill" -> Succeed("unit")

\* What the "exit" event makes of a suspended fiber.
resumeOnExit(f, code, signal) ==
    CASE fiber[f].op = "exitCode" ->
            exitListener(code, signal, nextRef + f - 1)
      [] fiber[f].op = "successfulExitCode" ->
            filterSuccess(exitListener(code, signal, nextRef + f - 1))
      [] fiber[f].op = "kill" -> Succeed("unit")

\* NodeJS reports the exit: the fields are set, the handle is dropped and
\* the "exit" event runs every listener registered so far.
emitExit(code, signal) ==
    /\ proc' = [proc EXCEPT !.handle = FALSE, !.exitCode = code,
                            !.signalCode = signal]
    /\ fiber' = [f \in Fibers |->
                    IF Waiting(f)
                    THEN [fiber[f] EXCEPT !.result = resumeOnExit(f, code, signal)]
                    ELSE fiber[f]]
    /\ nextRef' = nextRef + NumFibers
    /\ UNCHANGED <<command, spawned, sent, startResult, classifyVars, runVars, streamVars, moreVars>>

\* The child terminates on its own with a numeric status.
osExit(code) ==
    /\ proc.handle
    /\ emitExit(code, Null)

\* The child is terminated by a signal, sent through kill or by anyone else.
osSignalled(signal) ==
    /\ proc.handle
    /\ emitExit(NullCode, signal)

\* The canceller of exitCode: self.process.kill("SIGTERM").
cancellerNoKill(p, delivered) == [proc |-> p, sent |-> delivered]

canceller(p, delivered) == nodeKill(p, delivered, "SIGTERM")

\* A fiber suspended in exitCode or successfulExitCode is interrupted: the
\* canceller runs, then the fiber ends as interrupted.
interruptExitCode(f) ==
    /\ Waiting(f)
    /\ fiber[f].op \in {"exitCode", "successfulExitCode"}
    /\ proc' = canceller(proc, sent).proc
    /\ sent' = canceller(proc, sent).sent
    /\ fiber' = [fiber EXCEPT ![f].result = Interrupted]
    /\ UNCHANGED <<command, spawned, startResult, nextRef, classifyVars, runVars, streamVars, moreVars>>

\* A fiber suspended in killSignal_ is interrupted: T.effectAsync has no
\* canceller.
interruptKill(f) ==
    /\ Waiting(f)
    /\ fiber[f].op = "kill"
    /\ fiber' = [fiber EXCEPT ![f].result = Interrupted]
    /\ UNCHANGED <<command, spawned, proc, sent, startResult, nextRef,
                   classifyVars, runVars, streamVars, moreVars>>

InitProc ==
    /\ command \in ProcCommands
    /\ spawned = NotSpawned
    /\ proc = NoChildProcess
    /\ sent = {}
    /\ startResult = Pending
    /\ fiber = [f \in Fibers |-> Idle]
    /\ nextRef = FirstFreshRef
    /\ u = NoError /\ refined = Pending
    /\ cmd = NoCommand /\ frames = <<>> /\ runResult = Pending
    /\ StreamsUnused

NextProc ==
    \/ start
    \/ startError
    \/ \E f \in Fibers : callIsAlive(f)
    \/ \E f \in Fibers : kill(f)
    \/ \E f \in Fibers : killForcibly(f)
    \/ \E f \in Fibers, signal \in Signals : killSignal(f, signal)
    \/ \E f \in Fibers : exitCode(f)
    \/ \E f \in Fibers : successfulExitCode(f)
    \/ \E code \in ExitStatuses : osExit(code)
    \/ \E signal \in Signals : osSignalled(signal)
    \/ \E f \in Fibers : interruptExitCode(f)
    \/ \E f \in Fibers : interruptKill(f)

SpecProc == InitProc /\ [][NextProc]_vars

----------------------------------------------------------------------------
(* Claims checked under SpecProc                                           *)

Resolved(f) == fiber[f].result.tag \in {"succeed", "fail", "die"}

ExitReported == proc.pid /\ ~proc.handle

\* C1: successfulExitCode succeeds with the exit code when the process
\* exits with 0 and fails with NonZeroExitCode carrying the observed code
\* when it exits with any other code.
C1_SuccessfulExitCode ==
    \A f \in Fibers :
        (fiber[f].op = "successfulExitCode" /\ Resolved(f)
            /\ proc.exitCode # NullCode) =>
            IF proc.exitCode = 0
            THEN /\ fiber[f].result.tag = "succeed"
                 /\ fiber[f].result.value.code = 0
            ELSE /\ fiber[f].result.tag = "fail"
                 /\ fiber[f].result.error.tag = "NonZeroExitCode"
                 /\ fiber[f].result.error.exitCode.code = proc.exitCode

\* C2: when a fiber suspended in exitCode on a running process is
\* interrupted, SIGTERM has been sent to the process by the time the fiber
\* ends as interrupted, and an interrupted wait is never resumed with an
\* ExitCode or a CommandError afterwards.
C2_CancelSendsSigterm ==
    [][\A f \in Fibers :
          /\ (/\ Waiting(f)
              /\ fiber[f].op \in {"exitCode", "successfulExitCode"}
              /\ fiber'[f].result = Interrupted
              /\ proc.handle)
                => ("SIGTERM" \in sent' /\ proc'.killed)
          /\ (fiber[f].result = Interrupted => fiber'[f].result = Interrupted)
      ]_vars

C2_Witness ==
    \E f \in Fibers :
        /\ fiber[f].op = "exitCode"
        /\ fiber[f].result = Interrupted
        /\ "SIGTERM" \in sent
        /\ proc.killed

\* C3: a kill, killForcibly or killSignal call that has resumed its caller
\* has sent its signal, and the exit of the process has been reported: the
\* caller never resumes while the process is still running.
C3_KillWaitsForExit ==
    \A f \in Fibers :
        (fiber[f].op = "kill" /\ Resolved(f)) =>
            /\ fiber[f].signal \in sent
            /\ ~proc.handle
            /\ (proc.exitCode # NullCode \/ proc.signalCode # Null)

C3_Witness ==
    \E f \in Fibers :
        /\ fiber[f].op = "kill"
        /\ fiber[f].signal = "SIGKILL"
        /\ fiber[f].result = Succeed("unit")
        /\ proc.signalCode = "SIGKILL"

\* C4: isAlive returns at once, and returns true exactly when no exit has
\* been reported and no signal has been sent through kill; it is true
\* right after a successful spawn and false once a kill call has resolved.
C4_IsAlive ==
    [][/\ \A f \in Fibers :
            (fiber[f].op = "idle" /\ fiber'[f].op = "isAlive") =>
                fiber'[f].result = Succeed(proc.handle /\ sent = {})
       /\ (~spawned.called /\ startResult'.tag = "succeed") => isAlive(proc')
       /\ \A f \in Fibers :
            (fiber'[f].op = "kill" /\ fiber'[f].result.tag = "succeed") =>
                ~isAlive(proc')
      ]_vars

C4_Witness ==
    \E f, g \in Fibers :
        /\ fiber[f].op = "kill"
        /\ fiber[f].result = Succeed("unit")
        /\ fiber[g].op = "isAlive"
        /\ fiber[g].result = Succeed(FALSE)

\* C5: when the exit is reported with a signal and no code, every fiber
\* suspended in exitCode fails with an IOError whose message names the
\* signal; none of them resolves to an ExitCode.
C5_SignalIsIOError ==
    [][(proc.handle /\ ~proc'.handle /\ proc'.signalCode # Null) =>
          \A f \in Fibers :
              (Waiting(f) /\ fiber[f].op \in {"exitCode", "successfulExitCode"}) =>
                  /\ fiber'[f].result.tag = "fail"
                  /\ fiber'[f].result.error.tag = "IOError"
                  /\ proc'.signalCode \in fiber'[f].result.error.props.message
      ]_vars

C5_Witness ==
    \E f \in Fibers :
        /\ fiber[f].op = "exitCode"
        /\ fiber[f].result.tag = "fail"
        /\ proc.signalCode = "SIGTERM"

\* C6: exitCode resolves to ExitCode(code) for every reported code, zero or
\* not; a non-zero code fails neither exitCode nor the start that came
\* before it.
C6_NonZeroIsSuccess ==
    \A f \in Fibers :
        (fiber[f].op = "exitCode" /\ Resolved(f) /\ proc.exitCode # NullCode) =>
            /\ fiber[f].result.tag = "succeed"
            /\ fiber[f].result.value.code = proc.exitCode
            /\ startResult.tag = "succeed"

C6_Witness ==
    \E f \in Fibers :
        /\ fiber[f].op = "exitCode"
        /\ fiber[f].result.tag = "succeed"
        /\ fiber[f].result.value.code = 1
        /\ proc.exitCode = 1

\* C9: a spawn error reported before a pid is assigned makes start fail
\* with a CommandError and yields no Process; an assigned pid makes start
\* succeed with a Process.
C9_StartOutcome ==
    (spawned.called /\ startResult # Pending) =>
        IF spawned.pid
        THEN startResult.tag = "succeed"
        ELSE /\ startResult.tag = "fail"
             /\ startResult.error.tag \in CommandErrorTags

----------------------------------------------------------------------------
(* Command trees and their combinators (Command/index.ts)                  *)

PipedCommand(l, r) == [tag |-> "PipedCommand", left |-> l, right |-> r]

flattenShallow(c) ==
    IF c.tag = "StandardCommand" THEN <<c>> ELSE <<c.left, c.right>>

RECURSIVE flatten(_)
\* flatten: the StandardCommands of the tree, left to right.
flatten(c) ==
    IF c.tag = "StandardCommand" THEN <<c>>
    ELSE flatten(c.left) \o flatten(c.right)

RECURSIVE workingDirectory_(_, _)
\* workingDirectory_: set on every StandardCommand of the tree.
workingDirectory_(c, d) ==
    IF c.tag = "StandardCommand" THEN [c EXCEPT !.workingDirectory = Some(d)]
    ELSE PipedCommand(workingDirectory_(c.left, d), workingDirectory_(c.right, d))

stdin_Rightmost(c, in) ==
    IF c.tag = "StandardCommand" THEN [c EXCEPT !.stdin = in]
    ELSE IF c.right.tag = "StandardCommand"
         THEN [c EXCEPT !.right = [c.right EXCEPT !.stdin = in]]
         ELSE c

RECURSIVE stdin_(_, _)
\* stdin_: set on the leftmost StandardCommand only.
stdin_(c, in) ==
    IF c.tag = "StandardCommand" THEN [c EXCEPT !.stdin = in]
    ELSE [c EXCEPT !.left = stdin_(c.left, in)]

\* Command.stream(c): the stdout of a run of c, run when the stream is
\* pulled and not before.
stream(c) == [kind |-> "stream", of |-> c]

----------------------------------------------------------------------------
(* The environment of run: the file system and the programs on the PATH   *)

ExistingPath == "packages/process/src"

MissingPath == "/some/bad/path"

\* FileSystem.stat succeeds and reports a directory or a file.
pathExists(path) == path = ExistingPath

MissingProgram == "some-invalid-command"

ENOENT == [isError |-> TRUE, code |-> "ENOENT", msg |-> {"ENOENT"}]

\* What spawn() does with a program name.
osSpawn(program) ==
    IF program = MissingProgram
    THEN [called |-> TRUE, pid |-> FALSE, error |-> ENOENT]
    ELSE [called |-> TRUE, pid |-> TRUE, error |-> NoError]

validateWorkingDirectoryNoCheck(workingDirectory) == Succeed("unit")

\* validateWorkingDirectory: fails unless the directory, when given, exists.
validateWorkingDirectory(workingDirectory) ==
    IF workingDirectory.tag = "None" THEN Succeed("unit")
    ELSE IF pathExists(workingDirectory.value) THEN Succeed("unit")
    ELSE Fail(WorkingDirectoryMissing(workingDirectory.value))

\* P.start(c) run to its outcome.
startOutcome(c) ==
    IF osSpawn(c.command).pid
    THEN startWithPid(c, ChildProcess(c))
    ELSE refineOrDie(startRefine(osSpawn(c.command).error))

----------------------------------------------------------------------------
(* SpecRun: Command.run                                                    *)

\* Largest number of StandardCommands in the Command given to run.
MaxStages == 3

Programs == {"echo", MissingProgram}

WorkingDirectories == {None, Some(ExistingPath), Some(MissingPath)}

\* A literal byte source (PI.fromString, PI.fromByteArray).
bytes == [kind |-> "bytes"]

\* The stdin a caller gives to the command at position i: stdin_ reaches
\* the leftmost command only.
StdinsAt(i) == IF i = 1 THEN {PIinherit, PIfrom(bytes)} ELSE {PIinherit}

\* The StandardCommand at position i of a pipeline; its arguments tell the
\* stages apart.
Stage(i, program, wd, in, out) ==
    StandardCommand(program, <<i>>, <<>>, wd, in, out, "Pipe", FALSE)

StagesAt(i) ==
    {Stage(i, program, wd, in, out) :
        program \in Programs, wd \in WorkingDirectories, in \in StdinsAt(i),
        out \in {"Pipe", "Inherit"}}

\* Every sequence of n stages.
RECURSIVE StageSeqs(_)
StageSeqs(n) ==
    IF n = 0 THEN {<<>>}
    ELSE {Append(q, c) : q \in StageSeqs(n - 1), c \in StagesAt(n)}

\* Every Command tree built with pipeTo_ over the stages q.
RECURSIVE TreesOver(_)
TreesOver(q) ==
    IF Len(q) = 1 THEN {q[1]}
    ELSE UNION {{PipedCommand(l, r) :
                    l \in TreesOver(SubSeq(q, 1, k)),
                    r \in TreesOver(SubSeq(q, k + 1, Len(q)))} :
                k \in 1..(Len(q) - 1)}

\* The position of a StandardCommand in the pipeline it came from.
StageOf(c) == c.args[1]

\* C.toArray(chunk).slice(1, chunk.length - 1)
middle(chunk) == SubSeq(chunk, 2, Len(chunk) - 1)

RECURSIVE reduceStream(_, _)
\* A.reduce_(commands, s, (s, command) => stream(stdin_(command, fromStream(s))))
reduceStream(commands, s) ==
    IF commands = <<>> THEN s
    ELSE reduceStream(Tail(commands), stream(stdin_(Head(commands), PIfrom(s))))

inputStreamHeadOnly(chunk) == stream(Head(chunk))

\* run, PipedCommand branch: the stream fed to the last command.
inputStream(chunk) == reduceStream(middle(chunk), stream(Head(chunk)))

unsafeLastIsHead(chunk) == chunk[1]

\* C.unsafeLast(chunk)
unsafeLast(chunk) == chunk[Len(chunk)]

\* run, PipedCommand branch: the StandardCommand that is run in the end.
pipedTarget(c) ==
    IF Len(flatten(c)) = 1 THEN Head(flatten(c))
    ELSE stdin_(unsafeLast(flatten(c)), PIfrom(inputStream(flatten(c))))

\* One invocation of run on a StandardCommand.
Frame(c) ==
    [c |-> c, pc |-> "validate", result |-> Pending, spawnCalled |-> FALSE,
     daemon |-> "none"]

\* run(self): dispatch on the tag.
run ==
    /\ frames = <<>>
    /\ frames' = <<Frame(IF cmd.tag = "StandardCommand" THEN cmd
                         ELSE pipedTarget(cmd))>>
    /\ UNCHANGED <<cmd, runResult, classifyVars, procVars, streamVars, moreVars>>

\* The outcome of frame k is the outcome of the caller's run when k = 1; a
\* later frame belongs to a daemon, which keeps its failure to itself.
Finish(k, r) == IF k = 1 THEN runResult' = r ELSE UNCHANGED runResult

runValidate(k) ==
    /\ frames[k].pc = "validate"
    /\ LET v == validateWorkingDirectory(frames[k].c.workingDirectory)
       IN IF v.tag = "succeed"
          THEN /\ frames' = [frames EXCEPT ![k].pc = "start"]
               /\ UNCHANGED runResult
          ELSE /\ frames' = [frames EXCEPT ![k].pc = "failed", ![k].result = v]
               /\ Finish(k, v)
    /\ UNCHANGED <<cmd, classifyVars, procVars, streamVars, moreVars>>

runStartThenTap(k) ==
    /\ frames[k].pc = "start"
    /\ frames' = [frames EXCEPT ![k].pc = "tap",
                                ![k].result = startOutcome(frames[k].c),
                                ![k].spawnCalled = TRUE]
    /\ UNCHANGED <<cmd, runResult, classifyVars, procVars, streamVars, moreVars>>

runStart(k) ==
    /\ frames[k].pc = "start"
    /\ LET r == startOutcome(frames[k].c)
       IN IF r.tag = "succeed"
          THEN /\ frames' = [frames EXCEPT ![k].pc = "tap", ![k].result = r,
                                           ![k].spawnCalled = TRUE]
               /\ UNCHANGED runResult
          ELSE /\ frames' = [frames EXCEPT ![k].pc = "failed", ![k].result = r,
                                           ![k].spawnCalled = TRUE]
               /\ Finish(k, r)
    /\ UNCHANGED <<cmd, classifyVars, procVars, streamVars, moreVars>>

runTapJoin(k) ==
    /\ frames[k].pc = "tap"
    /\ frames' = [frames EXCEPT
                    ![k].pc = "done",
                    ![k].daemon = IF isSome(frames[k].c.stdin.source)
                                  THEN "forked" ELSE "none"]
    /\ IF isSome(frames[k].c.stdin.source) THEN UNCHANGED runResult
       ELSE Finish(k, frames[k].result)
    /\ UNCHANGED <<cmd, classifyVars, procVars, streamVars, moreVars>>

\* T.tap: fork the daemon that drains the stdin source, if there is one,
\* and return the Process.
runTap(k) ==
    /\ frames[k].pc = "tap"
    /\ frames' = [frames EXCEPT
                    ![k].pc = "done",
                    ![k].daemon = IF isSome(frames[k].c.stdin.source)
                                  THEN "forked" ELSE "none"]
    /\ Finish(k, frames[k].result)
    /\ UNCHANGED <<cmd, classifyVars, procVars, streamVars, moreVars>>

\* The daemon of frame k starts to drain its source: a Command.stream
\* source runs its command now.
daemonPull(k) ==
    /\ frames[k].daemon = "forked"
    /\ LET source == frames[k].c.stdin.source.value
       IN frames' = IF source.kind = "stream"
                    THEN Append([frames EXCEPT ![k].daemon = "running"],
                                Frame(source.of))
                    ELSE [frames EXCEPT ![k].daemon = "running"]
    /\ UNCHANGED <<cmd, runResult, classifyVars, procVars, streamVars, moreVars>>

\* The source of frame k's daemon can give no more: a literal source at any
\* time, a Command.stream source once its run has ended.
SourceEnded(k) ==
    \/ frames[k].c.stdin.source.value.kind = "bytes"
    \/ k < Len(frames) /\ frames[k + 1].pc \in {"done", "failed"}

\* The source of frame k's daemon fails: the run behind it failed.
SourceFailed(k) ==
    /\ frames[k].c.stdin.source.value.kind = "stream"
    /\ k < Len(frames) /\ frames[k + 1].pc = "failed"

\* The daemon of frame k ends: S.run_(input, proc.stdin) has drained the
\* source, or the source or a write to stdin has failed. Nobody joins the
\* fiber, so its exit is observed by no one.
daemonEnd(k) ==
    /\ frames[k].daemon = "running"
    /\ SourceEnded(k)
    /\ \E writeFailed \in BOOLEAN :
          frames' = [frames EXCEPT ![k].daemon =
                        IF SourceFailed(k) \/ writeFailed THEN "failed" ELSE "done"]
    /\ UNCHANGED <<cmd, runResult, classifyVars, procVars, streamVars, moreVars>>

InitRun ==
    /\ \E n \in 1..MaxStages : \E q \in StageSeqs(n) : cmd \in TreesOver(q)
    /\ frames = <<>>
    /\ runResult = Pending
    /\ u = NoError /\ refined = Pending
    /\ command = Null /\ spawned = NotSpawned /\ proc = NoChildProcess
    /\ sent = {} /\ startResult = Pending /\ fiber = <<>> /\ nextRef = 0
    /\ StreamsUnused

NextRun ==
    \/ run
    \/ \E k \in DOMAIN frames : runValidate(k)
    \/ \E k \in DOMAIN frames : runStart(k)
    \/ \E k \in DOMAIN frames : runTap(k)
    \/ \E k \in DOMAIN frames : daemonPull(k)
    \/ \E k \in DOMAIN frames : daemonEnd(k)

SpecRun == InitRun /\ [][NextRun]_vars

----------------------------------------------------------------------------
(* Properties of run                                                       *)

\* workingDirectory(MissingPath) has been applied to the Command.
WorkingDirectoryIsMissing == cmd = workingDirectory_(cmd, MissingPath)

\* Nothing is left to do: every frame has ended and every daemon has pulled.
Quiescent ==
    /\ frames # <<>>
    /\ \A k \in DOMAIN frames :
          /\ frames[k].pc \in {"done", "failed"}
          /\ frames[k].daemon \in {"none", "done", "failed"}

\* How many times spawn() has been called for stage i.
SpawnCount(i) ==
    Cardinality({k \in DOMAIN frames :
                    frames[k].spawnCalled /\ StageOf(frames[k].c) = i})

\* C7: a Command, single or pipeline, whose working directory is a path that
\* does not exist never has a process spawned, and once run has validated
\* the directory its outcome is the failure WorkingDirectoryMissing with
\* that path.
C7_WorkingDirectoryMissing ==
    WorkingDirectoryIsMissing =>
        /\ \A i \in 1..Len(flatten(cmd)) : SpawnCount(i) = 0
        /\ runResult \in {Pending, Fail(WorkingDirectoryMissing(MissingPath))}
        /\ (frames # <<>> /\ frames[1].pc # "validate"
                => runResult = Fail(WorkingDirectoryMissing(MissingPath)))

\* A three-stage pipeline with a missing working directory has failed.
C7_Witness ==
    /\ WorkingDirectoryIsMissing
    /\ Len(flatten(cmd)) = MaxStages
    /\ Quiescent
    /\ runResult = Fail(WorkingDirectoryMissing(MissingPath))

\* C10: when a PipedCommand of two or more stages has been run, run has
\* returned a Process and nothing is left to do, spawn has been called
\* exactly once for every stage and the Process returned is the last
\* stage's.
C10_EachStageSpawnedOnce ==
    (cmd.tag = "PipedCommand" /\ Quiescent /\ runResult.tag = "succeed") =>
        /\ \A i \in 1..Len(flatten(cmd)) : SpawnCount(i) = 1
        /\ runResult = Succeed(Process(unsafeLast(flatten(cmd))))

\* Stage i of the pipeline has been run: run has been called on it.
HasRun(i) == \E k \in DOMAIN frames : StageOf(frames[k].c) = i

\* C11 as stated: the first stage is run first and stage i+1 is run only
\* after stage i has been run.
C11_LeftToRight ==
    cmd.tag = "PipedCommand" =>
        \A i \in 1..(Len(flatten(cmd)) - 1) : HasRun(i + 1) => HasRun(i)

\* C11 as amended: the stages are run right to left. The k-th command run
\* is the k-th stage from the right; it is run only after the stage to its
\* right has been started with success, by the daemon that drains that
\* stage's stdin, whose source is the stream of the command now run.
C11_RightToLeft ==
    \A k \in DOMAIN frames :
        /\ StageOf(frames[k].c) = Len(flatten(cmd)) + 1 - k
        /\ k > 1 =>
              /\ frames[k - 1].result.tag = "succeed"
              /\ frames[k - 1].daemon \in {"running", "done", "failed"}
              /\ frames[k - 1].c.stdin.source = Some(stream(frames[k].c))

\* Every stage of a pipeline of three or more stages has been run.
C11_Witness ==
    /\ Len(flatten(cmd)) >= 3
    /\ Len(frames) = Len(flatten(cmd))
    /\ \A k \in DOMAIN frames : frames[k].result.tag = "succeed"

\* The command that run runs itself has a stdin source.
HasStdinSource == frames # <<>> /\ isSome(frames[1].c.stdin.source)

\* C13: when the command has a stdin source, run has returned the Process
\* as soon as the start is confirmed and the daemon forked, whatever the
\* daemon does later; a failure of run comes from the validation or the
\* start, before any daemon exists; and once run has an outcome no step of
\* a daemon changes it.
C13_RunDoesNotWaitForDrain ==
    /\ [](HasStdinSource =>
            /\ frames[1].pc = "done" =>
                  runResult = frames[1].result /\ runResult.tag = "succeed"
            /\ runResult.tag \in {"fail", "die"} =>
                  frames[1].pc = "failed" /\ frames[1].daemon = "none")
    /\ [][runResult # Pending => runResult' = runResult]_vars

\* run returned the Process and the drain of a literal source failed later.
C13_Witness ==
    /\ HasStdinSource
    /\ frames[1].c.stdin.source = Some(bytes)
    /\ frames[1].daemon = "failed"
    /\ runResult.tag = "succeed"

----------------------------------------------------------------------------
(* SpecPipe: the stdout of one stage drained into the stdin of the next    *)
(* (Process.start, NodeStream.streamFromReadable, NodeStream.               *)
(* sinkFromWritable, Command.run's daemon)                                  *)

\* Most bytes the producing stage writes.
MaxBytes == 3

\* bufferSize of streamFromReadable, scaled down.
BufferSize == 2

\* What streamFromReadable hands to the stream: emit.chunk, emit.end,
\* emit.fail.
EmitChunk(data) == [kind |-> "chunk", data |-> data]

EmitEnd == [kind |-> "end", data |-> <<>>]

EmitFail == [kind |-> "fail", data |-> <<>>]

\* The i-th byte a stage writes is i: the bytes written so far.
Produced(n) == [i \in 1..n |-> i]

IsPrefix(a, b) == Len(a) <= Len(b) /\ a = SubSeq(b, 1, Len(a))

\* sr.read(bufferSize): BufferSize bytes when the buffer holds that many,
\* what is left when the stream has ended, null (no data) otherwise.
read(buf, ended) ==
    IF Len(buf) >= BufferSize
    THEN [data |-> SubSeq(buf, 1, BufferSize),
          rest |-> SubSeq(buf, BufferSize + 1, Len(buf))]
    ELSE IF ended /\ buf # <<>> THEN [data |-> buf, rest |-> <<>>]
    ELSE [data |-> <<>>, rest |-> buf]

readOnce(buf, ended) ==
    IF read(buf, ended).data = <<>> THEN [chunks |-> <<>>, rest |-> buf]
    ELSE [chunks |-> <<EmitChunk(read(buf, ended).data)>>,
          rest |-> read(buf, ended).rest]

RECURSIVE readLoop(_, _)
\* The 'readable' listener: while ((buffer = sr.read(bufferSize)) !== null)
\* emit.chunk(buffer).
readLoop(buf, ended) ==
    IF read(buf, ended).data = <<>> THEN [chunks |-> <<>>, rest |-> buf]
    ELSE [chunks |-> <<EmitChunk(read(buf, ended).data)>>
                        \o readLoop(read(buf, ended).rest, ended).chunks,
          rest |-> readLoop(read(buf, ended).rest, ended).rest]

\* The stream and its sink are still at work: the sink has not ended, so
\* the Readable and the Writable have not been destroyed.
Draining == pipe.sink \in {"idle", "writing"}

\* The producing stage writes a byte to its stdout; proc.stdout.pipe(stdout)
\* moves it into the PassThrough, which announces it with 'readable'.
produce ==
    /\ pipe.written < MaxBytes /\ ~pipe.outEnded
    /\ pipe' = [pipe EXCEPT !.written = @ + 1,
                            !.pass = Append(@, pipe.written + 1),
                            !.readable = TRUE]
    /\ UNCHANGED <<classifyVars, procVars, runVars, splitter, decoder, merged,
                   moreVars>>

\* The producing stage closes its stdout: the pipe ends the PassThrough.
outEnd ==
    /\ ~pipe.outEnded
    /\ pipe' = [pipe EXCEPT !.outEnded = TRUE, !.readable = TRUE]
    /\ UNCHANGED <<classifyVars, procVars, runVars, splitter, decoder, merged,
                   moreVars>>

\* The daemon pulls the stream: streamFromReadable registers its listeners.
pull ==
    /\ ~pipe.listening
    /\ pipe' = [pipe EXCEPT !.listening = TRUE]
    /\ UNCHANGED <<classifyVars, procVars, runVars, splitter, decoder, merged,
                   moreVars>>

\* sr.on("readable", ...)
onReadable ==
    /\ pipe.listening /\ pipe.readable /\ Draining
    /\ pipe' = [pipe EXCEPT
                  !.readable = FALSE,
                  !.queue = @ \o readLoop(pipe.pass, pipe.outEnded).chunks,
                  !.pass = readLoop(pipe.pass, pipe.outEnded).rest]
    /\ UNCHANGED <<classifyVars, procVars, runVars, splitter, decoder, merged,
                   moreVars>>

\* sr.on("end", ...): the PassThrough has ended and has been read empty.
onEnd ==
    /\ pipe.listening /\ ~pipe.readable /\ Draining
    /\ pipe.outEnded /\ pipe.pass = <<>> /\ ~pipe.emitted
    /\ pipe' = [pipe EXCEPT !.emitted = TRUE, !.queue = Append(@, EmitEnd)]
    /\ UNCHANGED <<classifyVars, procVars, runVars, splitter, decoder, merged,
                   moreVars>>

\* sr.on("error", ...): reading the stage's stdout fails.
onError ==
    /\ pipe.listening /\ Draining
    /\ ~pipe.outEnded /\ ~pipe.emitted
    /\ pipe' = [pipe EXCEPT !.emitted = TRUE, !.readError = TRUE,
                            !.queue = Append(@, EmitFail)]
    /\ UNCHANGED <<classifyVars, procVars, runVars, splitter, decoder, merged,
                   moreVars>>

\* The release of streamFromReadable's acquireReleaseWith: sr.destroy().
releaseReadableNoDestroy(p) == p

releaseReadable(p) == [p EXCEPT !.srDestroyed = TRUE]

\* The release of sinkFromWritable's makeExit: sw.destroy().
releaseWritableNoDestroy(p) == p

releaseWritable(p) == [p EXCEPT !.stdinDestroyed = TRUE]

\* The callback of sw.write inside foldLeftChunksEffect: the new total, or
\* WritableError.
foldStepCountsChunks(bytesWritten, byteChunk, err) ==
    IF err THEN Fail("WritableError") ELSE Succeed(bytesWritten + 1)

foldStep(bytesWritten, byteChunk, err) ==
    IF err THEN Fail("WritableError")
    ELSE Succeed(bytesWritten + Len(byteChunk))

\* sinkFromWritable, one chunk: sw.write(chunk, callback). The bytes reach
\* the consuming stage unless it has closed its stdin.
sinkWrite ==
    /\ pipe.sink = "idle"
    /\ pipe.queue # <<>> /\ Head(pipe.queue).kind = "chunk"
    /\ pipe' = [pipe EXCEPT
                  !.sink = "writing",
                  !.queue = Tail(@),
                  !.writes = Append(@, Head(pipe.queue).data),
                  !.writeError = pipe.consumerGone,
                  !.received = IF pipe.consumerGone THEN @
                               ELSE @ \o Head(pipe.queue).data]
    /\ UNCHANGED <<classifyVars, procVars, runVars, splitter, decoder, merged,
                   moreVars>>

\* The callback of sw.write: the fold goes on, or fails with WritableError
\* and the release destroys the Writable.
writeCallback ==
    LET r == foldStep(pipe.bytesWritten, pipe.writes[Len(pipe.writes)],
                      pipe.writeError)
    IN /\ pipe.sink = "writing"
       /\ pipe' = IF r.tag = "fail"
                  THEN releaseReadable(releaseWritable(
                          [pipe EXCEPT !.sink = "failed", !.sinkResult = r]))
                  ELSE [pipe EXCEPT !.sink = "idle", !.bytesWritten = r.value]
       /\ UNCHANGED <<classifyVars, procVars, runVars, splitter, decoder,
                      merged, moreVars>>

\* The stream ends or fails: the sink ends and its release runs
\* sw.destroy(), which closes the consuming stage's stdin.
sinkEnd ==
    /\ pipe.sink = "idle"
    /\ pipe.queue # <<>> /\ Head(pipe.queue).kind \in {"end", "fail"}
    /\ pipe' = releaseReadable(releaseWritable(
                  [pipe EXCEPT
                     !.sink = IF Head(pipe.queue).kind = "end" THEN "done"
                              ELSE "failed",
                     !.queue = Tail(@),
                     !.sinkResult = IF Head(pipe.queue).kind = "end"
                                    THEN Succeed(pipe.bytesWritten)
                                    ELSE Fail("ReadableError")]))
    /\ UNCHANGED <<classifyVars, procVars, runVars, splitter, decoder, merged,
                   moreVars>>

\* The consuming stage exits or closes its stdin before the end.
consumerClose ==
    /\ ~pipe.consumerGone /\ Draining
    /\ pipe' = [pipe EXCEPT !.consumerGone = TRUE]
    /\ UNCHANGED <<classifyVars, procVars, runVars, splitter, decoder, merged,
                   moreVars>>

\* Nothing of the program is running.
ProgramUnused ==
    /\ u = NoError /\ refined = Pending
    /\ command = Null /\ spawned = NotSpawned /\ proc = NoChildProcess
    /\ sent = {} /\ startResult = Pending /\ fiber = <<>> /\ nextRef = 0
    /\ cmd = NoCommand /\ frames = <<>> /\ runResult = Pending

InitPipe ==
    /\ pipe = [written |-> 0, outEnded |-> FALSE, pass |-> <<>>,
               readable |-> FALSE, listening |-> FALSE, emitted |-> FALSE,
               readError |-> FALSE, queue |-> <<>>, sink |-> "idle",
               writeError |-> FALSE, received |-> <<>>,
               consumerGone |-> FALSE, stdinDestroyed |-> FALSE,
               writes |-> <<>>, bytesWritten |-> 0, sinkResult |-> Pending,
               srDestroyed |-> FALSE]
    /\ splitter = Unused /\ decoder = Unused /\ merged = Unused
    /\ MoreUnused
    /\ ProgramUnused

NextPipe ==
    \/ produce
    \/ outEnd
    \/ pull
    \/ onReadable
    \/ onEnd
    \/ onError
    \/ sinkWrite
    \/ writeCallback
    \/ sinkEnd
    \/ consumerClose

SpecPipe == InitPipe /\ [][NextPipe]_vars

\* C12: what the next stage has received on stdin is at every moment a
\* prefix of what the stage before wrote to stdout; stdin is closed by the
\* drain only once that stdout has ended, unless the drain failed; a drain
\* that ends without failure has delivered every byte; a drain fails only
\* on a read error or on a write to a stdin the stage has closed; and when
\* nothing is left to happen, stdin has been closed.
C12_BytesInOrder ==
    /\ IsPrefix(pipe.received, Produced(pipe.written))
    /\ pipe.stdinDestroyed => pipe.sink \in {"done", "failed"}
    /\ pipe.sink = "done" =>
          /\ pipe.outEnded /\ pipe.stdinDestroyed
          /\ pipe.received = Produced(pipe.written)
    /\ pipe.sink = "failed" => pipe.readError \/ pipe.consumerGone
    /\ ~ENABLED NextPipe => pipe.stdinDestroyed

\* Every byte has gone through, in more than one chunk, and stdin is closed.
C12_Witness ==
    /\ pipe.sink = "done"
    /\ pipe.written = MaxBytes
    /\ pipe.received = Produced(MaxBytes)
    /\ pipe.stdinDestroyed

----------------------------------------------------------------------------
(* SpecSplit: the splitLines transducer                                    *)

\* Longest text given to the splitter.
MaxText == 4

CR == "\\r"

LF == "\\n"

\* The characters of the texts: a letter and the two line-end characters.
Chars == {"a", CR, LF}

\* A string is the sequence of its characters.
Texts == UNION {[1..n -> Chars] : n \in 0..MaxText}

\* The state kept in stateRef: Tuple(O.emptyOf<string>(), false) at first.
SplitState(carry, inCRLF) == [carry |-> carry, inCRLF |-> inCRLF]

\* carry.length > 0 ? O.some(carry) : O.emptyOf()
toCarry(str) == IF Len(str) > 0 THEN Some(str) ELSE None

\* O.getOrElse_(carry, () => "")
fromCarry(o) == IF isSome(o) THEN o.value ELSE <<>>

startIndexNoCRLF(carry, inCRLF) == Len(carry)

\* Where the scan of carry + str starts: on the last character of the carry
\* after a split CRLF, past the carry otherwise.
startIndex(carry, inCRLF) ==
    IF inCRLF /\ Len(carry) > 0 THEN Len(carry) - 1 ELSE Len(carry)

\* concat.substring(from, to), both counted from 0
substring(str, from, to) == SubSeq(str, from + 1, to)

RECURSIVE scan(_, _, _, _, _)
\* while (i < concat.length) { ... }; carry = concat.substring(sliceStart)
scan(concat, i, sliceStart, buffer, inCRLF) ==
    IF i >= Len(concat)
    THEN [buffer |-> buffer,
          carry |-> substring(concat, sliceStart, Len(concat)),
          inCRLF |-> inCRLF]
    ELSE IF concat[i + 1] = LF
    THEN scan(concat, i + 1, i + 1,
              Append(buffer, substring(concat, sliceStart, i)), inCRLF)
    ELSE IF concat[i + 1] = CR /\ i + 1 < Len(concat) /\ concat[i + 2] = LF
    THEN scan(concat, i + 2, i + 2,
              Append(buffer, substring(concat, sliceStart, i)), inCRLF)
    ELSE IF concat[i + 1] = CR /\ i = Len(concat) - 1
    THEN scan(concat, i + 1, sliceStart, buffer, TRUE)
    ELSE scan(concat, i + 1, sliceStart, buffer, inCRLF)

\* The body of forEach for one str of the chunk.
splitStr(acc, str) ==
    IF Len(acc.carry \o str) > 0
    THEN scan(acc.carry \o str, startIndex(acc.carry, acc.inCRLF), 0,
              acc.buffer, acc.inCRLF)
    ELSE acc

RECURSIVE splitEach(_, _)
\* C.toArray(strings).forEach(...)
splitEach(acc, strings) ==
    IF strings = <<>> THEN acc
    ELSE splitEach(splitStr(acc, Head(strings)), Tail(strings))

\* The transducer on O.some(strings): the lines to emit and the new state.
splitPushForgetsCRLF(state, strings) ==
    LET r == splitEach([buffer |-> <<>>, carry |-> fromCarry(state.carry),
                        inCRLF |-> state.inCRLF], strings)
    IN [emit |-> r.buffer, state |-> SplitState(toCarry(r.carry), FALSE)]

splitPush(state, strings) ==
    LET r == splitEach([buffer |-> <<>>, carry |-> fromCarry(state.carry),
                        inCRLF |-> state.inCRLF], strings)
    IN [emit |-> r.buffer, state |-> SplitState(toCarry(r.carry), r.inCRLF)]

splitEndDropsCarry(state) ==
    [emit |-> <<>>, state |-> SplitState(None, FALSE)]

\* The transducer on O.none: the carry, if any, is the last line.
splitEnd(state) ==
    [emit |-> IF isSome(state.carry) THEN <<state.carry.value>> ELSE <<>>,
     state |-> SplitState(None, FALSE)]

\* The text still to be given to the splitter.
Rest == SubSeq(splitter.text, splitter.pos + 1, Len(splitter.text))

\* The stream hands over one chunk of one or two strings cut from the text.
pushChunk ==
    /\ ~splitter.ended
    /\ \E n \in 0..Len(Rest) : \E m \in 0..(Len(Rest) - n) : \E two \in BOOLEAN :
          LET strings == IF two THEN <<SubSeq(Rest, 1, n), SubSeq(Rest, n + 1, n + m)>>
                         ELSE <<SubSeq(Rest, 1, n + m)>>
              r == splitPush(splitter.state, strings)
          IN splitter' = [splitter EXCEPT
                            !.pos = @ + n + m,
                            !.cuts = (@ \cup {splitter.pos + n + m}
                                        \cup (IF two THEN {splitter.pos + n} ELSE {}))
                                     \ {0, Len(splitter.text)},
                            !.state = r.state,
                            !.out = @ \o r.emit]
    /\ UNCHANGED <<classifyVars, procVars, runVars, pipe, decoder, merged,
                   moreVars>>

\* The stream ends after the whole text.
endOfStream ==
    /\ ~splitter.ended /\ splitter.pos = Len(splitter.text)
    /\ splitter' = [splitter EXCEPT
                      !.ended = TRUE,
                      !.state = splitEnd(splitter.state).state,
                      !.out = @ \o splitEnd(splitter.state).emit]
    /\ UNCHANGED <<classifyVars, procVars, runVars, pipe, decoder, merged,
                   moreVars>>

InitSplit ==
    /\ \E text \in Texts :
          splitter = [text |-> text, pos |-> 0, cuts |-> {},
                      state |-> SplitState(None, FALSE), out |-> <<>>,
                      ended |-> FALSE]
    /\ pipe = Unused /\ decoder = Unused /\ merged = Unused
    /\ MoreUnused
    /\ ProgramUnused

NextSplit ==
    \/ pushChunk
    \/ endOfStream

SpecSplit == InitSplit /\ [][NextSplit]_vars

\* The lines of a text given to the splitter as one string in one chunk.
Uncut(text) ==
    splitPush(SplitState(None, FALSE), <<text>>).emit
        \o splitEnd(splitPush(SplitState(None, FALSE), <<text>>).state).emit

\* C14: whatever the cuts, the lines emitted by the end of the stream are
\* the lines of the uncut text; a text that is "a\r\nb" yields "a" and "b".
C14_CutsDoNotMatter ==
    splitter.ended =>
        /\ splitter.out = Uncut(splitter.text)
        /\ splitter.text = <<"a", CR, LF, "a">> => splitter.out = << <<"a">>, <<"a">> >>

\* "a\r\na" has been split with a cut between the \r and the \n.
C14_Witness ==
    /\ splitter.ended
    /\ splitter.text = <<"a", CR, LF, "a">>
    /\ 2 \in splitter.cuts
    /\ splitter.out = << <<"a">>, <<"a">> >>

\* A line without the \r of its \r\n terminator.
StripCR(line) ==
    IF line # <<>> /\ line[Len(line)] = CR THEN SubSeq(line, 1, Len(line) - 1)
    ELSE line

RECURSIVE Segments(_, _, _)
\* The segments of a text between \n or \r\n terminators; what follows the
\* last terminator counts when it is not empty.
Segments(rest, line, acc) ==
    IF rest = <<>> THEN (IF line = <<>> THEN acc ELSE Append(acc, line))
    ELSE IF Head(rest) = LF THEN Segments(Tail(rest), <<>>, Append(acc, StripCR(line)))
    ELSE Segments(Tail(rest), Append(line, Head(rest)), acc)

\* C15: by the end of the stream the splitter has emitted the segments of
\* the text between \n or \r\n terminators, a lone \r staying in its line,
\* and the last segment only when it is not empty.
C15_LinesAreSegments ==
    splitter.ended => splitter.out = Segments(splitter.text, <<>>, <<>>)

\* A text without a final newline has been split, in more than one chunk,
\* and its last segment emitted at the end.
C15_Witness ==
    /\ splitter.ended
    /\ splitter.text = <<"a", LF, "a", CR>>
    /\ splitter.cuts # {}
    /\ splitter.out = << <<"a">>, <<"a", CR>> >>

----------------------------------------------------------------------------
(* SpecDecode: the utf8Decode transducer                                   *)

\* Longest byte stream given to the decoder.
MaxStream == 4

\* Bytes as Byte.chunk(buffer) gives them, 0..255: an ASCII letter, three
\* continuation bytes, and the lead bytes of a two-, a three- and a
\* four-byte sequence. 0xEF 0xBB 0xBF is the byte-order mark.
Bytes == {97, 169, 187, 191, 195, 239, 240}

ByteStreams == UNION {[1..n -> Bytes] : n \in 0..MaxStream}

\* (b & 0xe0) === 0xc0
isTwoByteSequenceStart(b) == (b % 256) \div 32 = 6

\* (b & 0xf0) === 0xe0
isThreeByteSequenceStart(b) == (b % 256) \div 16 = 14

\* (b & 0xf8) === 0xf0
isFourByteSequenceStart(b) == (b % 256) \div 8 = 30

computeSplitLastOnly(chunk) ==
    IF Len(chunk) >= 1 /\ (\/ isTwoByteSequenceStart(chunk[Len(chunk)])
                           \/ isThreeByteSequenceStart(chunk[Len(chunk)])
                           \/ isFourByteSequenceStart(chunk[Len(chunk)]))
    THEN Len(chunk) - 1
    ELSE Len(chunk)

\* computeSplit: how many bytes of the chunk can be decoded now.
computeSplit(chunk) ==
    IF Len(chunk) >= 1 /\ (\/ isTwoByteSequenceStart(chunk[Len(chunk)])
                           \/ isThreeByteSequenceStart(chunk[Len(chunk)])
                           \/ isFourByteSequenceStart(chunk[Len(chunk)]))
    THEN Len(chunk) - 1
    ELSE IF Len(chunk) >= 2 /\ (\/ isThreeByteSequenceStart(chunk[Len(chunk) - 1])
                                \/ isFourByteSequenceStart(chunk[Len(chunk) - 1]))
    THEN Len(chunk) - 2
    ELSE IF Len(chunk) >= 3 /\ isFourByteSequenceStart(chunk[Len(chunk) - 2])
    THEN Len(chunk) - 3
    ELSE Len(chunk)

\* String.fromCharCode(...bytes): one UTF-16 code unit per argument, the
\* argument taken modulo 2^16.
fromCharCode(chunk) == [i \in 1..Len(chunk) |-> chunk[i] % 65536]

\* C.single(String.fromCharCode(...)) or C.empty()
emitString(chunk) == IF chunk = <<>> THEN <<>> ELSE <<fromCharCode(chunk)>>

\* utf8DecodeInternal on O.some(bytes)
internalPushKeepsAll(leftovers, chunk) ==
    [emit |-> <<>>, leftovers |-> leftovers \o chunk]

internalPush(leftovers, chunk) ==
    [emit |-> emitString(SubSeq(leftovers \o chunk, 1,
                                computeSplit(leftovers \o chunk))),
     leftovers |-> SubSeq(leftovers \o chunk,
                          computeSplit(leftovers \o chunk) + 1,
                          Len(leftovers \o chunk))]

internalEndDropsLeftovers(leftovers) == [emit |-> <<>>, leftovers |-> <<>>]

\* utf8DecodeInternal on O.none
internalEnd(leftovers) == [emit |-> emitString(leftovers), leftovers |-> <<>>]

\* C.from([-17, -69, -65])
BOM == <<-17, -69, -65>>

\* C.corresponds_(bytes, BOM, number.equals)
isBOM(chunk) == Len(chunk) = Len(BOM) /\ \A i \in 1..Len(BOM) : chunk[i] = BOM[i]

\* branchAfter(3, ...): the count of values collected before the branch.
BranchAfter == 3

\* The state of branchAfter: collecting the first values, or emitting
\* through the transducer chosen from them.
Collecting(data) == [tag |-> "Collecting", data |-> data, leftovers |-> <<>>]

Emitting(leftovers) == [tag |-> "Emitting", data |-> <<>>, leftovers |-> leftovers]

\* What the decoder gives back for one input: the strings emitted, the new
\* state, the bytes handed to utf8DecodeInternal, whether a mark was removed.
Step(emit, st, fed, stripped) ==
    [emit |-> emit, st |-> st, fed |-> fed, stripped |-> stripped]

\* utf8Decode on O.some(chunk): the first three bytes choose between
\* utf8DecodeInternal alone and prepend(bytes) then utf8DecodeInternal.
decodePush(st, chunk) ==
    IF st.tag = "Emitting"
    THEN Step(internalPush(st.leftovers, chunk).emit,
              Emitting(internalPush(st.leftovers, chunk).leftovers), chunk, FALSE)
    ELSE IF chunk = <<>> THEN Step(<<>>, st, <<>>, FALSE)
    ELSE IF BranchAfter - Len(st.data) <= Len(chunk)
    THEN LET first == st.data \o SubSeq(chunk, 1, BranchAfter - Len(st.data))
             remainder == SubSeq(chunk, BranchAfter - Len(st.data) + 1, Len(chunk))
             input == IF isBOM(first) THEN remainder ELSE first \o remainder
         IN Step(internalPush(<<>>, input).emit,
                 Emitting(internalPush(<<>>, input).leftovers), input, isBOM(first))
    ELSE Step(<<>>, Collecting(st.data \o chunk), <<>>, FALSE)

\* utf8Decode on O.none: a stream that ends while collecting gives what it
\* has collected to the chosen transducer and ends it.
decodeEnd(st) ==
    IF st.tag = "Emitting"
    THEN Step(internalEnd(st.leftovers).emit, Collecting(<<>>), <<>>, FALSE)
    ELSE LET input == IF isBOM(st.data) THEN <<>> ELSE st.data
             pushed == IF input = <<>> THEN [emit |-> <<>>, leftovers |-> <<>>]
                       ELSE internalPush(<<>>, input)
         IN Step(pushed.emit \o internalEnd(pushed.leftovers).emit,
                 Collecting(<<>>), input, isBOM(st.data))

RECURSIVE concatAll(_)
\* The strings of a chunk one after the other.
concatAll(strings) ==
    IF strings = <<>> THEN <<>> ELSE Head(strings) \o concatAll(Tail(strings))

\* The bytes still to be given to the decoder.
Remaining == SubSeq(decoder.bytes, decoder.pos + 1, Len(decoder.bytes))

\* The stream hands the next n bytes to the decoder as one chunk.
pushBytes ==
    /\ ~decoder.ended
    /\ \E n \in 0..Len(Remaining) :
          LET r == decodePush(decoder.st, SubSeq(Remaining, 1, n))
          IN decoder' = [decoder EXCEPT
                           !.pos = @ + n,
                           !.cuts = (@ \cup {decoder.pos + n}) \ {0, Len(decoder.bytes)},
                           !.st = r.st,
                           !.fed = @ \o r.fed,
                           !.stripped = @ \/ r.stripped,
                           !.out = @ \o concatAll(r.emit)]
    /\ UNCHANGED <<classifyVars, procVars, runVars, pipe, splitter, merged,
                   moreVars>>

\* The stream ends after the last byte.
endOfBytes ==
    /\ ~decoder.ended /\ decoder.pos = Len(decoder.bytes)
    /\ LET r == decodeEnd(decoder.st)
       IN decoder' = [decoder EXCEPT
                        !.ended = TRUE,
                        !.st = r.st,
                        !.fed = @ \o r.fed,
                        !.stripped = @ \/ r.stripped,
                        !.out = @ \o concatAll(r.emit)]
    /\ UNCHANGED <<classifyVars, procVars, runVars, pipe, splitter, merged,
                   moreVars>>

InitDecode ==
    /\ \E bs \in ByteStreams :
          decoder = [bytes |-> bs, pos |-> 0, cuts |-> {},
                     st |-> Collecting(<<>>), fed |-> <<>>, stripped |-> FALSE,
                     out |-> <<>>, ended |-> FALSE]
    /\ pipe = Unused /\ splitter = Unused /\ merged = Unused
    /\ MoreUnused
    /\ ProgramUnused

NextDecode ==
    \/ pushBytes
    \/ endOfBytes

SpecDecode == InitDecode /\ [][NextDecode]_vars

\* 10xxxxxx
isContinuation(b) == b \div 64 = 2

\* The length of the sequence a byte starts.
SequenceLength(b) ==
    IF isFourByteSequenceStart(b) THEN 4
    ELSE IF isThreeByteSequenceStart(b) THEN 3
    ELSE IF isTwoByteSequenceStart(b) THEN 2
    ELSE 1

\* The first sequence of bs is whole: a byte that is no continuation byte,
\* followed by the continuation bytes it announces.
FirstIsWhole(bs) ==
    /\ ~isContinuation(bs[1])
    /\ Len(bs) >= SequenceLength(bs[1])
    /\ \A i \in 2..SequenceLength(bs[1]) : isContinuation(bs[i])

RECURSIVE WellFormed(_)
WellFormed(bs) ==
    \/ bs = <<>>
    \/ /\ FirstIsWhole(bs)
       /\ WellFormed(SubSeq(bs, SequenceLength(bs[1]) + 1, Len(bs)))

RECURSIVE IncompleteTail(_)
\* What is left of a prefix of a well-formed stream after its whole
\* sequences: the bytes of a sequence still short of continuation bytes.
IncompleteTail(bs) ==
    IF bs = <<>> THEN <<>>
    ELSE IF Len(bs) < SequenceLength(bs[1]) THEN bs
    ELSE IncompleteTail(SubSeq(bs, SequenceLength(bs[1]) + 1, Len(bs)))

\* C16: for a well-formed stream, after every chunk utf8DecodeInternal has
\* seen, its leftover is exactly the incomplete sequence at the end of the
\* bytes it has been given, and everything before it has been emitted, so
\* that no emitted string ends inside a sequence.
C16_HoldsBackIncompleteTail ==
    (WellFormed(decoder.bytes) /\ decoder.st.tag = "Emitting") =>
        /\ decoder.st.leftovers = IncompleteTail(decoder.fed)
        /\ decoder.out =
              fromCharCode(SubSeq(decoder.fed, 1,
                                  Len(decoder.fed) - Len(decoder.st.leftovers)))

\* Two bytes of a three-byte sequence are held back after a decoded letter.
C16_Witness ==
    /\ WellFormed(decoder.bytes)
    /\ decoder.st.tag = "Emitting"
    /\ Len(decoder.st.leftovers) = 2
    /\ decoder.out # <<>>

RECURSIVE DecodeUtf8(_)
\* The UTF-16 code units of the characters a well-formed stream encodes.
DecodeUtf8(bs) ==
    IF bs = <<>> THEN <<>>
    ELSE LET n == SequenceLength(bs[1])
             rest == DecodeUtf8(SubSeq(bs, n + 1, Len(bs)))
             point == (bs[1] - 240) * 262144 + (bs[2] - 128) * 4096
                         + (bs[3] - 128) * 64 + (bs[4] - 128)
         IN IF n = 1 THEN <<bs[1]>> \o rest
            ELSE IF n = 2 THEN <<(bs[1] - 192) * 64 + (bs[2] - 128)>> \o rest
            ELSE IF n = 3
            THEN <<(bs[1] - 224) * 4096 + (bs[2] - 128) * 64 + (bs[3] - 128)>> \o rest
            ELSE <<55296 + ((point - 65536) \div 1024),
                   56320 + ((point - 65536) % 1024)>> \o rest

\* The output for a stream given to the decoder as one chunk.
UncutDecode(bs) ==
    concatAll(decodePush(Collecting(<<>>), bs).emit)
        \o concatAll(decodeEnd(decodePush(Collecting(<<>>), bs).st).emit)

\* The stream is the encoding of one multi-byte character other than the
\* byte-order mark.
OneCharacter ==
    /\ Len(decoder.bytes) >= 2
    /\ FirstIsWhole(decoder.bytes)
    /\ SequenceLength(decoder.bytes[1]) = Len(decoder.bytes)
    /\ decoder.bytes # <<239, 187, 191>>

\* C17 as stated: the bytes of one multi-byte character, however cut, give
\* the same string as in one chunk, and that string is the character.
C17_SplitCharacterDecodes ==
    (decoder.ended /\ OneCharacter) =>
        /\ decoder.out = UncutDecode(decoder.bytes)
        /\ decoder.out = DecodeUtf8(decoder.bytes)

\* C18: while the stream runs, every byte the decoder has taken is either
\* in the output or held back, once and in order; when the stream has
\* ended nothing is held back: the output has one code unit for every byte
\* of the stream other than a removed byte-order mark.
C18_EveryByteOnce ==
    LET taken == SubSeq(decoder.bytes, 1, decoder.pos)
        kept == IF decoder.stripped THEN SubSeq(taken, BranchAfter + 1, Len(taken))
                ELSE taken
    IN /\ decoder.out \o fromCharCode(decoder.st.data \o decoder.st.leftovers)
              = fromCharCode(kept)
       /\ decoder.ended =>
              decoder.st.data = <<>> /\ decoder.st.leftovers = <<>>

\* A stream of two bytes that ends inside a two-byte sequence has ended.
C18_Witness ==
    /\ decoder.ended
    /\ decoder.bytes = <<97, 195>>
    /\ decoder.out = <<97, 195>>

\* C19 as stated: a stream that starts with 0xEF 0xBB 0xBF gives the output
\* of the bytes after them, and any other stream the output of all of its
\* bytes.
C19_ByteOrderMark ==
    decoder.ended =>
        decoder.out =
            fromCharCode(IF /\ Len(decoder.bytes) >= 3
                            /\ SubSeq(decoder.bytes, 1, 3) = <<239, 187, 191>>
                         THEN SubSeq(decoder.bytes, 4, Len(decoder.bytes))
                         ELSE decoder.bytes)

----------------------------------------------------------------------------
(* SpecMerge: start with redirectErrorStream, stdout and stderr piped into *)
(* one PassThrough                                                         *)

\* Most bytes the process writes to each of stdout and stderr.
MaxWritten == 2

\* The n-th byte written to one of the two streams.
ByteOf(from, n) == [from |-> from, n |-> n]

\* The bytes of the sequence q that came from one stream, in order.
FromStream(q, from) == SelectSeq(q, LAMBDA b : b.from = from)

\* The bytes 1..n of one stream.
AllOf(from, n) == [i \in 1..n |-> ByteOf(from, i)]

\* A command whose error stream is merged into its output.
MergingCommand ==
    StandardCommand("echo", <<>>, <<>>, None, PIinherit, "Pipe", "Pipe", TRUE)

\* dest.write(chunk) of a pipe: a PassThrough that has been ended takes no
\* more data (write after end).
pipeWrite(m, b) ==
    IF m.passEnded THEN [m EXCEPT !.writeAfterEnd = TRUE]
    ELSE [m EXCEPT !.pass = Append(@, b)]

\* The source stream of a pipe ends: dest.end() unless { end: false }.
pipeEnd(m, end) == IF end THEN [m EXCEPT !.passEnded = TRUE] ELSE m

\* proc.stdout.pipe(stdout, { end: false }): a byte of stdout arrives.
stdoutData ==
    /\ ~merged.outEnded /\ merged.outWritten < MaxWritten
    /\ merged' = [pipeWrite(merged, ByteOf("stdout", merged.outWritten + 1))
                    EXCEPT !.outWritten = @ + 1]
    /\ UNCHANGED <<classifyVars, procVars, runVars, pipe, splitter, decoder,
                   moreVars>>

\* proc.stderr.pipe(stdout): a byte of stderr arrives.
stderrData ==
    /\ ~merged.errEnded /\ merged.errWritten < MaxWritten
    /\ merged' = [pipeWrite(merged, ByteOf("stderr", merged.errWritten + 1))
                    EXCEPT !.errWritten = @ + 1]
    /\ UNCHANGED <<classifyVars, procVars, runVars, pipe, splitter, decoder,
                   moreVars>>

\* proc.stdout ends; its pipe was made with { end: false }.
stdoutEnd ==
    /\ ~merged.outEnded
    /\ merged' = [pipeEnd(merged, FALSE) EXCEPT !.outEnded = TRUE]
    /\ UNCHANGED <<classifyVars, procVars, runVars, pipe, splitter, decoder,
                   moreVars>>

\* proc.stderr ends; its pipe ends the PassThrough.
stderrEnd ==
    /\ ~merged.errEnded
    /\ merged' = [pipeEnd(merged, TRUE) EXCEPT !.errEnded = TRUE]
    /\ UNCHANGED <<classifyVars, procVars, runVars, pipe, splitter, decoder,
                   moreVars>>

\* The stdout source of the Process delivers what the PassThrough holds.
mergedRead ==
    /\ merged.pass # <<>> /\ ~merged.sourceEnded
    /\ merged' = [merged EXCEPT !.delivered = @ \o merged.pass, !.pass = <<>>]
    /\ UNCHANGED <<classifyVars, procVars, runVars, pipe, splitter, decoder,
                   moreVars>>

\* The PassThrough has ended and is empty: the stdout source ends.
mergedEnd ==
    /\ merged.passEnded /\ merged.pass = <<>> /\ ~merged.sourceEnded
    /\ merged' = [merged EXCEPT !.sourceEnded = TRUE]
    /\ UNCHANGED <<classifyVars, procVars, runVars, pipe, splitter, decoder,
                   moreVars>>

InitMerge ==
    /\ merged = [process |-> Process(MergingCommand),
                 outWritten |-> 0, errWritten |-> 0,
                 outEnded |-> FALSE, errEnded |-> FALSE,
                 pass |-> <<>>, passEnded |-> FALSE, writeAfterEnd |-> FALSE,
                 delivered |-> <<>>, sourceEnded |-> FALSE]
    /\ pipe = Unused /\ splitter = Unused /\ decoder = Unused
    /\ MoreUnused
    /\ ProgramUnused

NextMerge ==
    \/ stdoutData
    \/ stderrData
    \/ stdoutEnd
    \/ stderrEnd
    \/ mergedRead
    \/ mergedEnd

SpecMerge == InitMerge /\ [][NextMerge]_vars

\* C20 as stated: with the error stream merged, the stderr source of the
\* Process is empty; the stdout source delivers bytes of each stream in
\* that stream's order; and it ends only after both streams have ended,
\* having delivered every byte written to either.
C20_MergedDeliversBoth ==
    /\ merged.process.stderr = "empty"
    /\ IsPrefix(FromStream(merged.delivered, "stdout"),
                AllOf("stdout", merged.outWritten))
    /\ IsPrefix(FromStream(merged.delivered, "stderr"),
                AllOf("stderr", merged.errWritten))
    /\ merged.sourceEnded => merged.outEnded /\ merged.errEnded
    /\ (merged.sourceEnded /\ merged.outEnded /\ merged.errEnded) =>
          /\ FromStream(merged.delivered, "stdout") = AllOf("stdout", merged.outWritten)
          /\ FromStream(merged.delivered, "stderr") = AllOf("stderr", merged.errWritten)

----------------------------------------------------------------------------
(* SpecSeparate: start without redirectErrorStream, stdout and stderr each *)
(* piped into a PassThrough of its own and consumed concurrently           *)

OsStreams == {"stdout", "stderr"}

\* A command with both outputs piped and the error stream not merged.
SeparateCommand ==
    StandardCommand("both-streams-test.sh", <<>>, <<>>, None, PIinherit,
                    "Pipe", "Pipe", FALSE)

pipeDestMerged(c, from) == "stdout"

\* The PassThrough an OS stream of the child is piped into:
\* proc.stdout.pipe(stdout), and proc.stderr.pipe(stdout) when the error
\* stream is merged, proc.stderr.pipe(stderr) when it is not.
pipeDest(c, from) == IF c.redirectErrorStream THEN "stdout" ELSE from

RECURSIVE dataOf(_)
\* The bytes of a sequence of emitted chunks.
dataOf(chunks) ==
    IF chunks = <<>> THEN <<>> ELSE Head(chunks).data \o dataOf(Tail(chunks))

\* The child writes a byte to one of its streams; the pipe moves it into
\* the PassThrough, which announces it with 'readable'.
osData(from) ==
    LET d == pipeDest(SeparateCommand, from)
        b == ByteOf(from, separate.os[from].written + 1)
    IN /\ ~separate.os[from].ended /\ separate.os[from].written < MaxWritten
       /\ separate' = [separate EXCEPT
                         !.os[from].written = @ + 1,
                         !.pass[d].buf = IF separate.pass[d].ended THEN @
                                         ELSE Append(@, b),
                         !.src[d].readable = TRUE]
       /\ UNCHANGED <<classifyVars, procVars, runVars, streamVars, tree, runs,
                   lastVars>>

\* The child closes one of its streams: the pipe ends its PassThrough.
osEnd(from) ==
    LET d == pipeDest(SeparateCommand, from)
    IN /\ ~separate.os[from].ended
       /\ separate' = [separate EXCEPT !.os[from].ended = TRUE,
                                       !.pass[d].ended = TRUE,
                                       !.src[d].readable = TRUE]
       /\ UNCHANGED <<classifyVars, procVars, runVars, streamVars, tree, runs,
                   lastVars>>

\* One of the two concurrent consumers pulls its source of the Process:
\* streamFromReadable registers its listeners on that PassThrough.
consume(s) ==
    /\ ~separate.src[s].listening
    /\ separate' = [separate EXCEPT !.src[s].listening = TRUE]
    /\ UNCHANGED <<classifyVars, procVars, runVars, streamVars, tree, runs,
                   lastVars>>

\* sr.on("readable", ...) of one source.
readableOf(s) ==
    LET r == readLoop(separate.pass[s].buf, separate.pass[s].ended)
    IN /\ separate.src[s].listening /\ separate.src[s].readable
       /\ ~separate.src[s].ended
       /\ separate' = [separate EXCEPT
                         !.src[s].readable = FALSE,
                         !.src[s].delivered = @ \o dataOf(r.chunks),
                         !.pass[s].buf = r.rest]
       /\ UNCHANGED <<classifyVars, procVars, runVars, streamVars, tree, runs,
                   lastVars>>

\* sr.on("end", ...) of one source: its consumer terminates.
endOf(s) ==
    /\ separate.src[s].listening /\ ~separate.src[s].readable
    /\ separate.pass[s].ended /\ separate.pass[s].buf = <<>>
    /\ ~separate.src[s].ended
    /\ separate' = [separate EXCEPT !.src[s].ended = TRUE]
    /\ UNCHANGED <<classifyVars, procVars, runVars, streamVars, tree, runs,
                   lastVars>>

InitSeparate ==
    /\ separate =
         [process |-> Process(SeparateCommand),
          os |-> [s \in OsStreams |-> [written |-> 0, ended |-> FALSE]],
          pass |-> [s \in OsStreams |-> [buf |-> <<>>, ended |-> FALSE]],
          src |-> [s \in OsStreams |->
                     [listening |-> FALSE, readable |-> FALSE,
                      delivered |-> <<>>, ended |-> FALSE]]]
    /\ tree = Unused /\ runs = Unused
    /\ LastUnused
    /\ pipe = Unused /\ splitter = Unused /\ decoder = Unused /\ merged = Unused
    /\ ProgramUnused

NextSeparate ==
    \/ \E s \in OsStreams : osData(s)
    \/ \E s \in OsStreams : osEnd(s)
    \/ \E s \in OsStreams : consume(s)
    \/ \E s \in OsStreams : readableOf(s)
    \/ \E s \in OsStreams : endOf(s)

SpecSeparate == InitSeparate /\ [][NextSeparate]_vars

\* C21: with merging off and both outputs piped, each of the two sources
\* of the Process delivers bytes of its own stream only, in the order they
\* were written; a consumer terminates only after its stream was closed
\* and has then received every byte of it; and when nothing is left to
\* happen both streams are closed and both consumers have terminated.
C21_SeparateStreams ==
    /\ separate.process.stdout = "stdout" /\ separate.process.stderr = "stderr"
    /\ \A s \in OsStreams :
          /\ FromStream(separate.src[s].delivered, s) = separate.src[s].delivered
          /\ IsPrefix(separate.src[s].delivered, AllOf(s, separate.os[s].written))
          /\ separate.src[s].ended =>
                /\ separate.os[s].ended
                /\ separate.src[s].delivered = AllOf(s, separate.os[s].written)
    /\ ~ENABLED NextSeparate =>
          \A s \in OsStreams : separate.os[s].ended /\ separate.src[s].ended

\* Both streams carried all their bytes, interleaved, and both consumers
\* have terminated.
C21_Witness ==
    \A s \in OsStreams :
        /\ separate.src[s].ended
        /\ separate.src[s].delivered = AllOf(s, MaxWritten)

----------------------------------------------------------------------------
(* Concurrent calls on one Process, checked under SpecProc                 *)

\* What a fiber observed, without the identity of the ExitCode object.
Outcome(r) ==
    IF r.tag = "succeed" THEN [tag |-> "succeed", code |-> r.value.code]
    ELSE [tag |-> r.tag, code |-> NullCode]

\* C22: whatever the interleaving of kill, exitCode and isAlive calls on a
\* running Process, the step in which the OS reports the exit completes
\* every kill and every exitCode call that was waiting for it; all the
\* exitCode calls completed by the exit observe the same outcome; and an
\* isAlive call has its answer in the step in which it is made.
C22_ConcurrentCalls ==
    /\ [](\A f \in Fibers :
            fiber[f].op = "isAlive" => fiber[f].result.tag = "succeed")
    /\ [](\A f, g \in Fibers :
            (fiber[f].op = "exitCode" /\ fiber[g].op = "exitCode"
                /\ Resolved(f) /\ Resolved(g)) =>
            Outcome(fiber[f].result) = Outcome(fiber[g].result))
    /\ [][(proc.handle /\ ~proc'.handle) =>
            \A f \in Fibers :
                (Waiting(f) /\ fiber[f].op \in {"kill", "exitCode"}) =>
                    /\ fiber'[f].op = fiber[f].op
                    /\ fiber'[f].result.tag \in {"succeed", "fail"}]_vars

\* A kill and an exitCode call made on the running process have both been
\* completed by its exit.
C22_Witness ==
    /\ ExitReported
    /\ fiber[1].op = "kill" /\ fiber[1].result = Succeed("unit")
    /\ fiber[2].op = "exitCode" /\ fiber[2].result.tag = "fail"
    /\ "SIGTERM" \in sent

----------------------------------------------------------------------------
(* SpecTree: the constructors and combinators of Command/index.ts applied  *)
(* to Command trees                                                        *)

\* Most StandardCommands in the three operands of pipeTo taken together.
MaxLeaves == 4

pipeTo_Swapped(left, right) == PipedCommand(right, left)

\* pipeTo_(left, right)
pipeTo_(left, right) == PipedCommand(left, right)

env_TopOnly(c, env) ==
    IF c.tag = "StandardCommand" THEN [c EXCEPT !.env = env] ELSE c

RECURSIVE env_(_, _)
\* env_: set on every StandardCommand of the tree.
env_(c, env) ==
    IF c.tag = "StandardCommand" THEN [c EXCEPT !.env = env]
    ELSE PipedCommand(env_(c.left, env), env_(c.right, env))

stdout_Leftmost(c, out) ==
    IF c.tag = "StandardCommand" THEN [c EXCEPT !.stdout = out]
    ELSE IF c.left.tag = "StandardCommand"
         THEN [c EXCEPT !.left = [c.left EXCEPT !.stdout = out]]
         ELSE c

RECURSIVE stdout_(_, _)
\* stdout_: set on the rightmost StandardCommand only.
stdout_(c, out) ==
    IF c.tag = "StandardCommand" THEN [c EXCEPT !.stdout = out]
    ELSE [c EXCEPT !.right = stdout_(c.right, out)]

RECURSIVE stderr_(_, _)
\* stderr_: set on the rightmost StandardCommand only.
stderr_(c, err) ==
    IF c.tag = "StandardCommand" THEN [c EXCEPT !.stderr = err]
    ELSE [c EXCEPT !.right = stderr_(c.right, err)]

RECURSIVE redirectErrorStream_(_, _)
\* redirectErrorStream_: set on the rightmost StandardCommand only.
redirectErrorStream_(c, merge) ==
    IF c.tag = "StandardCommand" THEN [c EXCEPT !.redirectErrorStream = merge]
    ELSE PipedCommand(c.left, redirectErrorStream_(c.right, merge))

\* PI.fromString(text): a source made of the bytes of the text.
fromString(text) == PIfrom([kind |-> "string", text |-> text])

\* feed_(self, input)
feed_(c, input) == stdin_(c, fromString(input))

\* The values the combinators are called with; none of them is a value a
\* leaf of the operands already has.
EnvArgs == {<<<<"key", "value">>>>}

WorkingDirectoryArgs == {"working-directory"}

StdinArgs == {PIfrom([kind |-> "stream"])}

FeedArgs == {"2\\n1\\n3"}

\* One StandardCommand of an operand; `part` and `i` tell the leaves
\* apart. A plain leaf is what Command.command makes, a configured leaf
\* has every field set to something else.
Leaf(part, i, configured) ==
    IF configured
    THEN StandardCommand("sort", <<part, i>>, <<<<"LANG", "C">>>>,
                         Some(ExistingPath), PIfrom(bytes), "Inherit",
                         "Inherit", TRUE)
    ELSE mkCommand("cat", <<part, i>>)

\* Every sequence of n leaves of one operand.
RECURSIVE LeafSeqs(_, _)
LeafSeqs(part, n) ==
    IF n = 0 THEN {<<>>}
    ELSE {Append(q, Leaf(part, n, configured)) :
            q \in LeafSeqs(part, n - 1), configured \in BOOLEAN}

\* The Commands a combinator can be called on: an operand as it is, or a
\* pipeline built by pipeTo.
Selves ==
    {tree.a} \cup (IF tree.piped THEN {tree.left, tree.right} ELSE {})

Applied(self, op, arg, out) ==
    [tree EXCEPT !.self = self, !.op = op, !.arg = arg, !.out = out]

\* pipe(a, pipeTo(b), pipeTo(c)) and pipe(a, pipeTo(pipe(b, pipeTo(c))))
callPipeTo ==
    /\ ~tree.piped
    /\ tree' = [tree EXCEPT
                  !.piped = TRUE,
                  !.left = pipeTo_(pipeTo_(tree.a, tree.b), tree.c),
                  !.right = pipeTo_(tree.a, pipeTo_(tree.b, tree.c))]
    /\ UNCHANGED <<classifyVars, procVars, runVars, streamVars, separate, runs,
                   lastVars>>

callEnv(self, m) ==
    /\ tree.op = "none"
    /\ tree' = Applied(self, "env", m, env_(self, m))
    /\ UNCHANGED <<classifyVars, procVars, runVars, streamVars, separate, runs,
                   lastVars>>

callWorkingDirectory(self, d) ==
    /\ tree.op = "none"
    /\ tree' = Applied(self, "workingDirectory", d, workingDirectory_(self, d))
    /\ UNCHANGED <<classifyVars, procVars, runVars, streamVars, separate, runs,
                   lastVars>>

callStdin(self, in) ==
    /\ tree.op = "none"
    /\ tree' = Applied(self, "stdin", in, stdin_(self, in))
    /\ UNCHANGED <<classifyVars, procVars, runVars, streamVars, separate, runs,
                   lastVars>>

callFeed(self, input) ==
    /\ tree.op = "none"
    /\ tree' = Applied(self, "feed", input, feed_(self, input))
    /\ UNCHANGED <<classifyVars, procVars, runVars, streamVars, separate, runs,
                   lastVars>>

callStdout(self, out) ==
    /\ tree.op = "none"
    /\ tree' = Applied(self, "stdout", out, stdout_(self, out))
    /\ UNCHANGED <<classifyVars, procVars, runVars, streamVars, separate, runs,
                   lastVars>>

callStderr(self, err) ==
    /\ tree.op = "none"
    /\ tree' = Applied(self, "stderr", err, stderr_(self, err))
    /\ UNCHANGED <<classifyVars, procVars, runVars, streamVars, separate, runs,
                   lastVars>>

callRedirectErrorStream(self, merge) ==
    /\ tree.op = "none"
    /\ tree' = Applied(self, "redirectErrorStream", merge,
                       redirectErrorStream_(self, merge))
    /\ UNCHANGED <<classifyVars, procVars, runVars, streamVars, separate, runs,
                   lastVars>>

callFlatten(self) ==
    /\ tree.op = "none"
    /\ tree' = Applied(self, "flatten", Null, flatten(self))
    /\ UNCHANGED <<classifyVars, procVars, runVars, streamVars, separate, runs,
                   lastVars>>

\* run(self): a StandardCommand is run as it is, a PipedCommand as its last
\* stage fed with the stream of the stages before it.
callRun(self) ==
    /\ tree.op = "none"
    /\ tree' = Applied(self, "run", Null,
                       IF self.tag = "StandardCommand" THEN self
                       ELSE pipedTarget(self))
    /\ UNCHANGED <<classifyVars, procVars, runVars, streamVars, separate, runs,
                   lastVars>>

InitTree ==
    /\ \E na \in 1..MaxLeaves, nb \in 1..MaxLeaves, nc \in 1..MaxLeaves :
          /\ na + nb + nc <= MaxLeaves
          /\ \E qa \in LeafSeqs("a", na), qb \in LeafSeqs("b", nb),
                qc \in LeafSeqs("c", nc) :
                \E a \in TreesOver(qa), b \in TreesOver(qb), c \in TreesOver(qc) :
                    tree = [a |-> a, b |-> b, c |-> c, piped |-> FALSE,
                            left |-> NoCommand, right |-> NoCommand,
                            self |-> NoCommand, op |-> "none", arg |-> Null,
                            out |-> NoCommand]
    /\ separate = Unused /\ runs = Unused
    /\ LastUnused
    /\ pipe = Unused /\ splitter = Unused /\ decoder = Unused /\ merged = Unused
    /\ ProgramUnused

NextTree ==
    \/ callPipeTo
    \/ \E self \in Selves, m \in EnvArgs : callEnv(self, m)
    \/ \E self \in Selves, d \in WorkingDirectoryArgs : callWorkingDirectory(self, d)
    \/ \E self \in Selves, in \in StdinArgs : callStdin(self, in)
    \/ \E self \in Selves, input \in FeedArgs : callFeed(self, input)
    \/ \E self \in Selves, out \in ProcessOutputs : callStdout(self, out)
    \/ \E self \in Selves, err \in ProcessOutputs : callStderr(self, err)
    \/ \E self \in Selves, merge \in BOOLEAN : callRedirectErrorStream(self, merge)
    \/ \E self \in Selves : callFlatten(self)
    \/ \E self \in Selves : callRun(self)

SpecTree == InitTree /\ [][NextTree]_vars

----------------------------------------------------------------------------
(* Claims checked under SpecTree                                           *)

\* The stages of the Command a combinator was called on, and of its result.
Before == flatten(tree.self)

After == flatten(tree.out)

\* The result has the stages of the Command it was made from, except that
\* stage i is `new`.
OnlyStageChanged(i, new) ==
    /\ Len(After) = Len(Before)
    /\ \A j \in 1..Len(Before) : After[j] = IF j = i THEN new ELSE Before[j]

\* C23: for all Commands a, b and c, pipeTo(pipeTo(a, b), c) and
\* pipeTo(a, pipeTo(b, c)) flatten to the same sequence, which is
\* flatten(a) followed by flatten(b) followed by flatten(c); run therefore
\* makes the same chain of stages of both.
C23_PipeToAssociative ==
    tree.piped =>
        /\ flatten(tree.left) = flatten(tree.right)
        /\ flatten(tree.left) =
              flatten(tree.a) \o flatten(tree.b) \o flatten(tree.c)
        /\ pipedTarget(tree.left) = pipedTarget(tree.right)
        /\ tree.op = "flatten" /\ tree.self \in {tree.left, tree.right} =>
              tree.out = flatten(tree.a) \o flatten(tree.b) \o flatten(tree.c)

\* Both associations of three operands, the first of them a pipeline
\* itself, have been built and one of them flattened.
C23_Witness ==
    /\ tree.piped /\ tree.a.tag = "PipedCommand"
    /\ tree.left # tree.right
    /\ tree.op = "flatten" /\ tree.self = tree.right
    /\ tree.out = flatten(tree.left)

\* C24: env(m) and workingDirectory(d) applied to any Command tree set the
\* environment to m, respectively the working directory to d, on every
\* stage of the flattened result and change nothing else: the stages are
\* as many, in the same order, with every other field as before.
C24_EnvAndWorkingDirectoryEverywhere ==
    /\ tree.op = "env" =>
          /\ Len(After) = Len(Before)
          /\ \A j \in 1..Len(Before) :
                After[j] = [Before[j] EXCEPT !.env = tree.arg]
    /\ tree.op = "workingDirectory" =>
          /\ Len(After) = Len(Before)
          /\ \A j \in 1..Len(Before) :
                After[j] = [Before[j] EXCEPT !.workingDirectory = Some(tree.arg)]

\* The working directory has been set on a pipeline of at least three
\* stages, one of which had another directory and one none.
C24_Witness ==
    /\ tree.op = "workingDirectory" /\ tree.self = tree.left
    /\ \E j \in 1..Len(Before) : Before[j].workingDirectory = None
    /\ \E j \in 1..Len(Before) : Before[j].workingDirectory = Some(ExistingPath)
    /\ \A j \in 1..Len(After) : After[j].workingDirectory = Some(tree.arg)

\* C25: stdin(s) and feed(input) applied to a Command change the stdin of
\* the first stage of its flattened form and nothing else: every other
\* field of that stage and every other stage are as before.
C25_StdinFirstStageOnly ==
    /\ tree.op = "stdin" =>
          OnlyStageChanged(1, [Before[1] EXCEPT !.stdin = tree.arg])
    /\ tree.op = "feed" =>
          OnlyStageChanged(1, [Before[1] EXCEPT !.stdin = fromString(tree.arg)])

\* A string has been fed to a pipeline whose later stages have a stdin of
\* their own, which they keep.
C25_Witness ==
    /\ tree.op = "feed" /\ tree.self = tree.right
    /\ After[1].stdin = fromString(tree.arg)
    /\ \E j \in 2..Len(After) : After[j].stdin = PIfrom(bytes)
    /\ tree.out # tree.self

\* C26: stdout(o), stderr(o) and redirectErrorStream(b) applied to a
\* Command change that one field of the last stage of its flattened form
\* and nothing else: every earlier stage and every other field are as
\* before.
C26_OutputsLastStageOnly ==
    /\ tree.op = "stdout" =>
          OnlyStageChanged(Len(Before),
                           [Before[Len(Before)] EXCEPT !.stdout = tree.arg])
    /\ tree.op = "stderr" =>
          OnlyStageChanged(Len(Before),
                           [Before[Len(Before)] EXCEPT !.stderr = tree.arg])
    /\ tree.op = "redirectErrorStream" =>
          OnlyStageChanged(Len(Before),
                           [Before[Len(Before)] EXCEPT
                               !.redirectErrorStream = tree.arg])

\* stdout has been set on a pipeline whose earlier stages have another
\* stdout, which they keep.
C26_Witness ==
    /\ tree.op = "stdout" /\ tree.self = tree.left /\ tree.arg = "Redirect"
    /\ After[Len(After)].stdout = "Redirect"
    /\ \E j \in 1..(Len(After) - 1) : After[j].stdout = "Inherit"
    /\ \E j \in 1..(Len(After) - 1) : After[j].stdout = "Pipe"

\* The number of StandardCommands of a tree, and the i-th of them from the
\* left.
RECURSIVE LeafCount(_)
LeafCount(c) ==
    IF c.tag = "StandardCommand" THEN 1
    ELSE LeafCount(c.left) + LeafCount(c.right)

RECURSIVE LeafAt(_, _)
LeafAt(c, i) ==
    IF c.tag = "StandardCommand" THEN c
    ELSE IF i <= LeafCount(c.left) THEN LeafAt(c.left, i)
    ELSE LeafAt(c.right, i - LeafCount(c.left))

\* Every Command the state holds.
CommandsHeld ==
    {tree.a, tree.b, tree.c}
        \cup (IF tree.piped THEN {tree.left, tree.right} ELSE {})

\* C30: flatten has a result for every Command: one element for each
\* StandardCommand of the tree, in left-to-right order; the command itself
\* for a StandardCommand and at least two elements for a PipedCommand, so
\* that run never finds a PipedCommand flattened to one element.
C30_FlattenLeaves ==
    /\ \A c \in CommandsHeld :
          /\ Len(flatten(c)) = LeafCount(c)
          /\ \A i \in 1..LeafCount(c) : flatten(c)[i] = LeafAt(c, i)
          /\ c.tag = "StandardCommand" => flatten(c) = <<c>>
          /\ c.tag = "PipedCommand" => Len(flatten(c)) >= 2
    /\ tree.op = "flatten" =>
          /\ Len(tree.out) = LeafCount(tree.self)
          /\ \A i \in 1..LeafCount(tree.self) : tree.out[i] = LeafAt(tree.self, i)
          /\ tree.self.tag = "PipedCommand" => Len(tree.out) # 1

\* A pipeline with a pipeline as one of its sides has been flattened.
C30_Witness ==
    /\ tree.op = "flatten" /\ tree.self \in {tree.left, tree.right}
    /\ tree.self.left.tag = "PipedCommand" \/ tree.self.right.tag = "PipedCommand"
    /\ Len(tree.out) = MaxLeaves

----------------------------------------------------------------------------
(* The two stream adapters, checked under SpecPipe                         *)

\* The chunks of a queue of emissions.
ChunksIn(q) == SelectSeq(q, LAMBDA e : e.kind = "chunk")

RECURSIVE SumOfLengths(_)
SumOfLengths(chunks) ==
    IF chunks = <<>> THEN 0 ELSE Len(Head(chunks)) + SumOfLengths(Tail(chunks))

RECURSIVE Flat(_)
Flat(chunks) == IF chunks = <<>> THEN <<>> ELSE Head(chunks) \o Flat(Tail(chunks))

\* C27: sinkFromWritable writes the chunks to the Writable in the order it
\* is given them, and issues a write only when no earlier write is waiting
\* for its callback; it resolves with the sum of the lengths of the chunks
\* written; it fails with WritableError on the first write whose callback
\* reports an error, and writes nothing after it; and the Writable is
\* destroyed if and only if the sink has finished, with a result or with a
\* failure.
C27_WritableAdapter ==
    /\ [](/\ IsPrefix(Flat(pipe.writes), Produced(pipe.written))
          /\ pipe.sink = "done" =>
                pipe.sinkResult = Succeed(SumOfLengths(pipe.writes))
          /\ (pipe.sink = "failed" /\ pipe.writeError) =>
                pipe.sinkResult = Fail("WritableError")
          /\ pipe.stdinDestroyed <=> pipe.sink \in {"done", "failed"}
          /\ pipe.stdinDestroyed <=> pipe.sinkResult # Pending)
    /\ [][/\ pipe'.writes # pipe.writes =>
                /\ pipe.sink = "idle" /\ pipe'.sink = "writing"
                /\ ~pipe.writeError
                /\ Len(pipe'.writes) = Len(pipe.writes) + 1
          /\ (pipe.sink = "writing" /\ pipe'.sink # "writing") =>
                pipe'.writes = pipe.writes]_vars

\* Two chunks of different lengths have been written and the sink has
\* resolved with their total.
C27_Witness ==
    /\ pipe.sink = "done" /\ pipe.stdinDestroyed
    /\ Len(pipe.writes) = 2 /\ Len(pipe.writes[1]) # Len(pipe.writes[2])
    /\ pipe.sinkResult = Succeed(MaxBytes)

\* C28: streamFromReadable hands the bytes to its consumer in the order
\* the Readable made them readable, losing none while it is consumed; the
\* sequence ends only after the Readable has ended and fails after an
\* 'error' of the Readable; and the Readable is destroyed if and only if
\* the sequence has ended, has failed, or has been cancelled by its
\* consumer (here: the sink that failed on a write).
C28_ReadableAdapter ==
    /\ ~pipe.srDestroyed =>
          Flat(pipe.writes) \o dataOf(ChunksIn(pipe.queue)) \o pipe.pass
              = Produced(pipe.written)
    /\ IsPrefix(Flat(pipe.writes), Produced(pipe.written))
    /\ pipe.sink = "done" =>
          pipe.outEnded /\ ~pipe.readError /\ Flat(pipe.writes) = Produced(pipe.written)
    /\ (pipe.sinkResult = Fail("ReadableError")) => pipe.readError
    /\ (pipe.readError /\ ~ENABLED NextPipe) => pipe.sink = "failed"
    /\ pipe.srDestroyed <=> pipe.sink \in {"done", "failed"}
    /\ ~ENABLED NextPipe => pipe.srDestroyed

\* The consumer has cancelled a Readable that had neither ended nor
\* failed, and the Readable has been destroyed.
C28_Witness ==
    /\ pipe.sink = "failed" /\ pipe.writeError
    /\ ~pipe.emitted /\ ~pipe.outEnded
    /\ pipe.srDestroyed

----------------------------------------------------------------------------
(* SpecTwice: run called more than once on one Command                     *)

\* Number of times run is called on the Command.
MaxRuns == 2

\* The Commands run is called on.
TwiceCommands == {mkCommand("sleep", <<"20">>), mkCommand("echo", <<"1">>)}

\* The signals sent to the Process of a run.
TwiceSignals == {"SIGTERM", "SIGKILL"}

spawnOnce(children) == 1

\* spawn(command, args, options) inside the effect that start returns: the
\* effect is run once for each call of run, and each run of it makes a
\* ChildProcess of its own. `children` are the ChildProcess objects made
\* so far; the new one is named by the next number.
spawn(children) == Cardinality(children) + 1

\* The ChildProcess objects made so far.
Children == {runs.process[r] : r \in 1..Len(runs.process)}

\* run(self) once more: validateWorkingDirectory, then start, which spawns
\* and builds a Process around the ChildProcess.
runAgain ==
    LET child == spawn(Children)
    IN /\ Len(runs.process) < MaxRuns
       /\ runs' = [runs EXCEPT
                     !.process = Append(@, child),
                     !.waiter = Append(@, Idle.result),
                     !.waiting = Append(@, FALSE),
                     !.child[child] = ChildProcess(runs.self),
                     !.sent[child] = {}]
       /\ UNCHANGED <<classifyVars, procVars, runVars, streamVars, separate, tree,
                   lastVars>>

\* Process.killSignal_ on the Process of run r.
signalRun(r, signal) ==
    LET child == runs.process[r]
        k == nodeKill(runs.child[child], runs.sent[child], signal)
    IN /\ runs' = [runs EXCEPT !.child[child] = k.proc, !.sent[child] = k.sent]
       /\ UNCHANGED <<classifyVars, procVars, runVars, streamVars, separate, tree,
                   lastVars>>

\* Command.exitCode: Process.exitCode on the Process of run r registers
\* its "exit" listener.
awaitRun(r) ==
    /\ ~runs.waiting[r] /\ runs.waiter[r] = Pending
    /\ runs' = [runs EXCEPT !.waiting[r] = TRUE]
    /\ UNCHANGED <<classifyVars, procVars, runVars, streamVars, separate, tree,
                   lastVars>>

\* NodeJS reports the exit of one child: its fields are set and its
\* "exit" listeners run.
exitOf(child, code, signal) ==
    /\ runs.child[child].handle
    /\ runs' = [runs EXCEPT
                  !.child[child] = [@ EXCEPT !.handle = FALSE,
                                             !.exitCode = code,
                                             !.signalCode = signal],
                  !.waiter = [r \in 1..Len(runs.process) |->
                                IF runs.process[r] = child /\ runs.waiting[r]
                                THEN exitListener(code, signal, FirstFreshRef + r)
                                ELSE runs.waiter[r]],
                  !.waiting = [r \in 1..Len(runs.process) |->
                                 runs.waiting[r] /\ runs.process[r] # child]]
    /\ UNCHANGED <<classifyVars, procVars, runVars, streamVars, separate, tree,
                   lastVars>>

InitTwice ==
    /\ \E c \in TwiceCommands :
          runs = [given |-> c, self |-> c, process |-> <<>>,
                  waiter |-> <<>>, waiting |-> <<>>,
                  child |-> [n \in 1..MaxRuns |-> NoChildProcess],
                  sent |-> [n \in 1..MaxRuns |-> {}]]
    /\ separate = Unused /\ tree = Unused
    /\ LastUnused
    /\ pipe = Unused /\ splitter = Unused /\ decoder = Unused /\ merged = Unused
    /\ ProgramUnused

NextTwice ==
    \/ runAgain
    \/ \E r \in 1..Len(runs.process), signal \in TwiceSignals :
          signalRun(r, signal)
    \/ \E r \in 1..Len(runs.process) : awaitRun(r)
    \/ \E r \in 1..Len(runs.process), code \in ExitStatuses :
          exitOf(runs.process[r], code, Null)
    \/ \E r \in 1..Len(runs.process) :
          \E signal \in runs.sent[runs.process[r]] :
              exitOf(runs.process[r], NullCode, signal)

SpecTwice == InitTwice /\ [][NextTwice]_vars

\* Everything of run r: its ChildProcess, the signals sent to it and what
\* its exitCode call has observed.
RunState(rs, r) ==
    [child |-> rs.child[rs.process[r]], sent |-> rs.sent[rs.process[r]],
     waiter |-> rs.waiter[r], waiting |-> rs.waiting[r]]

\* C29: every call of run on one Command makes a ChildProcess no earlier
\* call has made; the Command is the same value after any number of runs;
\* and a step that signals the Process of one run, registers a wait on it
\* or reports its exit changes nothing of any other run: not its
\* ChildProcess, not the signals it was sent, not what its wait observed.
C29_RunsAreIndependent ==
    /\ [](/\ runs.self = runs.given
          /\ \A r, q \in 1..Len(runs.process) :
                r # q => runs.process[r] # runs.process[q]
          /\ \A r \in 1..Len(runs.process) :
                runs.waiter[r] # Pending =>
                    /\ ~runs.child[runs.process[r]].handle
                    /\ runs.waiter[r].tag = "succeed" =>
                          runs.waiter[r].value.code
                              = runs.child[runs.process[r]].exitCode)
    /\ [][\A r, q \in 1..Len(runs.process) :
            (r # q /\ RunState(runs', r) # RunState(runs, r)) =>
                RunState(runs', q) = RunState(runs, q)]_vars

\* Two runs of the Command: the first was killed and its wait failed, the
\* second went on and exited with 0 on its own.
C29_Witness ==
    /\ Len(runs.process) = 2
    /\ runs.waiter[1].tag = "fail" /\ "SIGKILL" \in runs.sent[runs.process[1]]
    /\ runs.waiter[2].tag = "succeed" /\ runs.waiter[2].value.code = 0
    /\ runs.sent[runs.process[2]] = {}

----------------------------------------------------------------------------
(* Calls made after the exit, checked under SpecProc                       *)

\* C31: once a process has exited with a numeric code c, every exitCode
\* call on its Process that was not interrupted has resolved to
\* ExitCode(c), whether it was made before the exit was reported or after.
\* The "exit" event is emitted once, and no later step of NodeJS resumes a
\* fiber, so a call that is still pending in such a state never resolves.
C31_ExitCodeResolves ==
    \A f \in Fibers :
        (/\ ExitReported /\ proc.exitCode # NullCode
         /\ fiber[f].op = "exitCode" /\ fiber[f].result # Interrupted) =>
            /\ fiber[f].result.tag = "succeed"
            /\ fiber[f].result.value.code = proc.exitCode

\* C32: once the process is gone, every kill, killForcibly or killSignal
\* call that was not interrupted has resumed its caller, whether it was
\* made before the exit was reported or after.
C32_KillResumes ==
    \A f \in Fibers :
        (/\ ExitReported
         /\ fiber[f].op = "kill" /\ fiber[f].result # Interrupted) =>
            fiber[f].result = Succeed("unit")

----------------------------------------------------------------------------
(* Failures of the stages of a pipeline, checked under SpecRun             *)

\* C33: when a pipeline has been run to the end and a stage of it, at any
\* position, names a program that does not exist, every working directory
\* being there, run has failed with ProgramNotFound.  The earlier stages
\* are started by the daemons that feed the later ones, and a daemon's
\* failure reaches nobody.
C33_MissingProgramFails ==
    (/\ Quiescent
     /\ \A i \in 1..Len(flatten(cmd)) :
           validateWorkingDirectory(flatten(cmd)[i].workingDirectory) = Succeed("unit")
     /\ \E i \in 1..Len(flatten(cmd)) : flatten(cmd)[i].command = MissingProgram) =>
        /\ runResult.tag = "fail"
        /\ runResult.error.tag = "ProgramNotFound"

\* The last stage of the pipeline, as the caller built it.
LastStage == unsafeLast(flatten(cmd))

\* The failure of the last stage before it has a process: of the check of
\* its working directory, or else of spawn for a program that is not there.
LastStageFailure ==
    IF validateWorkingDirectory(LastStage.workingDirectory).tag = "fail"
    THEN validateWorkingDirectory(LastStage.workingDirectory)
    ELSE startOutcome(LastStage)

\* C37: when the last stage of a pipeline has a missing working directory
\* or names a program that does not exist, no earlier stage is ever run or
\* spawned, and run, once it is past the failing step, has failed with
\* that stage's error: WorkingDirectoryMissing, or else ProgramNotFound.
C37_LastStageFailsFirst ==
    (/\ cmd.tag = "PipedCommand"
     /\ \/ validateWorkingDirectory(LastStage.workingDirectory).tag = "fail"
        \/ LastStage.command = MissingProgram) =>
        /\ \A i \in 1..(Len(flatten(cmd)) - 1) : SpawnCount(i) = 0 /\ ~HasRun(i)
        /\ runResult \in {Pending, LastStageFailure}
        /\ LastStageFailure.tag = "fail"
        /\ LastStageFailure.error.tag \in {"WorkingDirectoryMissing", "ProgramNotFound"}
        /\ (frames # <<>> /\ frames[1].pc \notin {"validate", "start"}
                => runResult = LastStageFailure)

\* A three-stage pipeline whose earlier stages could start and whose last
\* stage names a missing program in an existing directory has failed with
\* ProgramNotFound after the one spawn of the last stage.
C37_Witness ==
    /\ Len(flatten(cmd)) = MaxStages
    /\ LastStage.command = MissingProgram
    /\ validateWorkingDirectory(LastStage.workingDirectory).tag = "succeed"
    /\ \A i \in 1..(MaxStages - 1) :
          /\ flatten(cmd)[i].command # MissingProgram
          /\ validateWorkingDirectory(flatten(cmd)[i].workingDirectory).tag = "succeed"
    /\ Quiescent
    /\ SpawnCount(MaxStages) = 1
    /\ runResult.tag = "fail" /\ runResult.error.tag = "ProgramNotFound"

----------------------------------------------------------------------------
(* The stdin of the stages of a pipeline that is run, under SpecTree       *)

RECURSIVE RunChain(_, _)
\* The StandardCommands that running c runs, first to last, at most n of
\* them: c itself, after the commands behind the stream that is its stdin.
RunChain(c, n) ==
    IF n > 1 /\ isSome(c.stdin.source) /\ c.stdin.source.value.kind = "stream"
    THEN Append(RunChain(c.stdin.source.value.of, n - 1), c)
    ELSE <<c>>

\* C38: when a Command of n stages is run, the commands that are run are
\* its n stages in order, each with the fields it was built with, except
\* that the stdin of every stage after the first is the stdout stream of
\* the command run for the stage before it, whatever stdin that stage had
\* been given; the first stage is run with its own stdin.
C38_StdinFromPreviousStage ==
    tree.op = "run" =>
        LET chain == RunChain(tree.out, Len(Before))
        IN /\ Len(chain) = Len(Before)
           /\ chain[1] = Before[1]
           /\ \A i \in 2..Len(Before) :
                 /\ Len(chain) >= i
                 /\ chain[i] = [Before[i] EXCEPT
                                  !.stdin = PIfrom(stream(chain[i - 1]))]

\* A pipeline of MaxLeaves stages has been run whose first, second and last
\* stages had been given a stdin of their own: the first keeps it, the
\* others read the stage before them.
C38_Witness ==
    /\ tree.op = "run" /\ tree.self = tree.left
    /\ Len(Before) = MaxLeaves
    /\ Before[1].stdin = PIfrom(bytes)
    /\ Before[2].stdin = PIfrom(bytes)
    /\ Before[MaxLeaves].stdin = PIfrom(bytes)
    /\ RunChain(tree.out, MaxLeaves)[1].stdin = PIfrom(bytes)
    /\ RunChain(tree.out, MaxLeaves)[2].stdin = PIfrom(stream(Before[1]))
    /\ tree.out.stdin.source.value.kind = "stream"

----------------------------------------------------------------------------
(* The end of the drain of a stdin source, checked under SpecPipe          *)

\* C35: a drain whose source is exhausted without error ends with the
\* number of bytes written and with stdin closed; stdin is closed by the
\* step that ends the drain and by no earlier one, at the end of the
\* source unless the drain failed; when nothing is left to happen the
\* drain has ended and stdin is closed, and it has ended with every byte
\* delivered unless a read failed or the process closed its stdin first,
\* in which case it has ended all the same.
C35_DrainTerminates ==
    /\ [](/\ pipe.sink = "done" =>
                /\ pipe.emitted /\ ~pipe.readError
                /\ pipe.outEnded /\ pipe.pass = <<>> /\ pipe.queue = <<>>
                /\ pipe.stdinDestroyed
                /\ pipe.sinkResult = Succeed(pipe.bytesWritten)
          /\ ~ENABLED NextPipe =>
                /\ pipe.sink \in {"done", "failed"}
                /\ pipe.stdinDestroyed
                /\ pipe.consumerGone \/ pipe.readError \/
                      /\ pipe.sink = "done"
                      /\ pipe.received = Produced(pipe.written))
    /\ [][(pipe'.stdinDestroyed /\ ~pipe.stdinDestroyed) =>
             /\ Draining /\ ~Draining'
             /\ pipe'.sink = "done" =>
                   pipe.queue # <<>> /\ Head(pipe.queue) = EmitEnd]_vars

\* The source has been exhausted and the drain has ended with all
\* MaxBytes bytes written to a stdin that stayed open until then and is
\* closed now.
C35_Witness ==
    /\ pipe.sink = "done"
    /\ pipe.sinkResult = Succeed(MaxBytes)
    /\ ~pipe.consumerGone /\ ~pipe.readError
    /\ pipe.stdinDestroyed
    /\ ~ENABLED NextPipe

\* The process has closed its stdin before the source was exhausted, and
\* the drain has ended on the write that failed.
C35_ClosedFirst ==
    /\ pipe.consumerGone /\ pipe.sink = "failed"
    /\ pipe.sinkResult = Fail("WritableError")
    /\ pipe.stdinDestroyed
    /\ ~ENABLED NextPipe

----------------------------------------------------------------------------
(* The state of the line splitter, checked under SpecSplit                 *)

\* The string has \n among its characters.
HasLF(str) == \E i \in 1..Len(str) : str[i] = LF

\* The carry is there and its last character is \r.
EndsWithCR(carry) ==
    isSome(carry) /\ carry.value[Len(carry.value)] = CR

\* The chunks the stream can hand over next: one or two strings cut from
\* the rest of the text.
NextChunks ==
    {<<SubSeq(Rest, 1, n)>> : n \in 0..Len(Rest)}
        \cup {<<SubSeq(Rest, 1, n), SubSeq(Rest, n + 1, m)>> :
                 n \in 0..Len(Rest), m \in 0..Len(Rest)}

\* C39: after every chunk the carry has no \n in it and is never the
\* empty string, no line emitted so far has a \n in it, and the flag is
\* set whenever the carry ends with \r; no chunk clears the flag, only the
\* end of the stream does; and a flag that is set while the carry does not
\* end with \r makes no difference: the next chunk, whatever it is, gives
\* the lines and the carry it would give with the flag cleared.
C39_SplitterState ==
    /\ [](/\ ~HasLF(fromCarry(splitter.state.carry))
          /\ isSome(splitter.state.carry) => splitter.state.carry.value # <<>>
          /\ \A i \in 1..Len(splitter.out) : ~HasLF(splitter.out[i])
          /\ EndsWithCR(splitter.state.carry) => splitter.state.inCRLF
          /\ (~splitter.ended /\ ~EndsWithCR(splitter.state.carry)) =>
                \A strings \in NextChunks :
                    LET kept == splitPush(splitter.state, strings)
                        cleared == splitPush(SplitState(splitter.state.carry, FALSE),
                                             strings)
                    IN /\ kept.emit = cleared.emit
                       /\ kept.state.carry = cleared.state.carry)
    /\ [][(splitter.state.inCRLF /\ ~splitter'.state.inCRLF) =>
             (~splitter.ended /\ splitter'.ended)]_vars

\* A \r ended one chunk and set the flag; later chunks have emitted a line
\* and left a carry that does not end with \r, the flag still set, with
\* text still to come.
C39_Witness ==
    /\ ~splitter.ended
    /\ splitter.state.inCRLF
    /\ isSome(splitter.state.carry) /\ ~EndsWithCR(splitter.state.carry)
    /\ Len(splitter.out) >= 1
    /\ Rest # <<>>
    /\ HasLF(Rest)

----------------------------------------------------------------------------
(* The state of the UTF-8 decoder, checked under SpecDecode                *)

\* The first byte of a sequence of two, three or four bytes.
IsLeadByte(b) ==
    \/ isTwoByteSequenceStart(b)
    \/ isThreeByteSequenceStart(b)
    \/ isFourByteSequenceStart(b)

\* The longest leftover: a four-byte sequence short of its last byte.
MaxLeftover == 3

\* C40: after every chunk the leftovers of utf8DecodeInternal are at most
\* three bytes, begin with the lead byte of a multi-byte sequence when
\* there are any, and are shorter than the sequence that byte announces;
\* the flush at the end of the stream leaves none, and none are there
\* once the stream has ended.
C40_DecoderState ==
    LET leftovers == decoder.st.leftovers
    IN /\ Len(leftovers) <= MaxLeftover
       /\ leftovers # <<>> =>
             /\ IsLeadByte(leftovers[1])
             /\ isTwoByteSequenceStart(leftovers[1]) => Len(leftovers) = 1
             /\ isThreeByteSequenceStart(leftovers[1]) => Len(leftovers) <= 2
       /\ internalEnd(leftovers).leftovers = <<>>
       /\ decoder.ended => leftovers = <<>>

\* The first three bytes of a four-byte sequence are kept as leftovers
\* after a chunk, and the sequence's last byte is still to come.
C40_Witness ==
    /\ ~decoder.ended
    /\ decoder.st.tag = "Emitting"
    /\ Len(decoder.st.leftovers) = MaxLeftover
    /\ isFourByteSequenceStart(decoder.st.leftovers[1])
    /\ Remaining # <<>>

----------------------------------------------------------------------------
(* SpecLines: Command.linesStream, the stdout of a process read as lines   *)

\* Largest number of bytes the process writes to stdout.
MaxOutput == 3

\* The bytes of the output: the letter a, \n, and the two bytes 0xC3 0xA9
\* of the one character U+00E9.
OutputBytes == {97, 10, 195, 169}

Outputs == UNION {[1..n -> OutputBytes] : n \in 0..MaxOutput}

\* The character with a code point, as the splitter's texts write it.
charOf(codePoint) ==
    CASE codePoint = 10 -> LF
      [] codePoint = 13 -> CR
      [] codePoint = 97 -> "a"
      [] codePoint = 233 -> "U+00E9"
      [] OTHER -> "U+FFFD"

RECURSIVE toStringUtf8(_)
\* Buffer.toString("utf-8") for sequences of one and two bytes: a byte
\* below 0x80 is its character, a two-byte lead with its continuation is
\* one character, and a lead without continuation or a continuation
\* without lead is replaced by U+FFFD.
toStringUtf8(buffer) ==
    IF buffer = <<>> THEN <<>>
    ELSE IF Head(buffer) < 128
    THEN <<charOf(Head(buffer))>> \o toStringUtf8(Tail(buffer))
    ELSE IF /\ isTwoByteSequenceStart(Head(buffer))
            /\ Len(buffer) >= 2 /\ isContinuation(buffer[2])
    THEN <<charOf((Head(buffer) % 32) * 64 + (buffer[2] % 64))>>
            \o toStringUtf8(Tail(Tail(buffer)))
    ELSE <<"U+FFFD">> \o toStringUtf8(Tail(buffer))

\* S.mapChunks((c) => C.single(Byte.buffer(c).toString("utf-8"))): every
\* chunk of bytes becomes a chunk of one string, decoded on its own.
mapChunk(c) == <<toStringUtf8(c)>>

\* The bytes the process has written that have not been handed over.
Unread == SubSeq(reader.bytes, reader.pos + 1, Len(reader.bytes))

\* The stream of stdout hands over the next n bytes as one chunk, which is
\* decoded and given to S.splitLines.
readChunk ==
    /\ ~reader.ended
    /\ \E n \in 1..Len(Unread) :
          LET r == splitPush(reader.state, mapChunk(SubSeq(Unread, 1, n)))
          IN reader' = [reader EXCEPT
                          !.pos = @ + n,
                          !.cuts = (@ \cup {reader.pos + n}) \ {Len(reader.bytes)},
                          !.state = r.state,
                          !.out = @ \o r.emit]
    /\ UNCHANGED <<classifyVars, procVars, runVars, streamVars, separate,
                   tree, runs, pipeline>>

\* stdout ends after the last byte: the splitter emits what it carries.
readEnd ==
    /\ ~reader.ended /\ reader.pos = Len(reader.bytes)
    /\ reader' = [reader EXCEPT
                    !.ended = TRUE,
                    !.state = splitEnd(reader.state).state,
                    !.out = @ \o splitEnd(reader.state).emit]
    /\ UNCHANGED <<classifyVars, procVars, runVars, streamVars, separate,
                   tree, runs, pipeline>>

InitLines ==
    /\ \E bs \in Outputs :
          reader = [bytes |-> bs, pos |-> 0, cuts |-> {},
                    state |-> SplitState(None, FALSE), out |-> <<>>,
                    ended |-> FALSE]
    /\ pipeline = Unused
    /\ separate = Unused /\ tree = Unused /\ runs = Unused
    /\ pipe = Unused /\ splitter = Unused /\ decoder = Unused /\ merged = Unused
    /\ ProgramUnused

NextLines ==
    \/ readChunk
    \/ readEnd

SpecLines == InitLines /\ [][NextLines]_vars

\* The lines of an output that reaches linesStream as one chunk.
LinesOf(bs) == Uncut(toStringUtf8(bs))

\* C36: whatever the chunks the stdout bytes arrive in, the lines that
\* linesStream has emitted by the end of the stream are the lines of the
\* same bytes arriving as one chunk.  A chunk that ends inside a
\* multi-byte sequence is decoded on its own, so the two halves of the
\* sequence come out as two replacement characters.
C36_ChunkingDoesNotMatter ==
    reader.ended => reader.out = LinesOf(reader.bytes)

----------------------------------------------------------------------------
(* SpecCancel: Command.exitCode on a pipeline, interrupted while it waits  *)

\* Largest number of stages of the pipeline.
MaxChain == 4

\* A stage that run has not reached, and the ChildProcess of one it has.
NotRun == [state |-> "not run", sent |-> {}]

Running == [state |-> "running", sent |-> {}]

\* ChildProcess.kill(signal): delivered to a child that runs, nothing for
\* one that has exited.
deliver(child, signal) ==
    IF child.state = "running" THEN [child EXCEPT !.sent = @ \cup {signal}]
    ELSE child

\* The number of stages of the pipeline.
ChainLength == Len(pipeline.stage)

\* run(pipeline): the last stage is started; the stages before it are the
\* source of the drain that is forked for its stdin.
runPipeline ==
    /\ pipeline.stage[ChainLength] = NotRun
    /\ pipeline' = [pipeline EXCEPT !.stage[ChainLength] = Running]
    /\ UNCHANGED <<classifyVars, procVars, runVars, streamVars, separate,
                   tree, runs, reader>>

\* The daemon that drains the stdin of stage i + 1 pulls its source, which
\* runs stage i. The daemon belongs to no fiber of the caller.
pullStage(i) ==
    /\ i < ChainLength
    /\ pipeline.stage[i] = NotRun /\ pipeline.stage[i + 1] # NotRun
    /\ pipeline' = [pipeline EXCEPT !.stage[i] = Running]
    /\ UNCHANGED <<classifyVars, procVars, runVars, streamVars, separate,
                   tree, runs, reader>>

\* P.exitCode on the Process that run returned, the last stage's: the
\* fiber registers its "exit" listener and waits.
awaitExit ==
    /\ pipeline.stage[ChainLength] # NotRun
    /\ pipeline.waiter = "none"
    /\ pipeline' = [pipeline EXCEPT !.waiter = "waiting"]
    /\ UNCHANGED <<classifyVars, procVars, runVars, streamVars, separate,
                   tree, runs, reader>>

\* The child of stage i exits, by itself or by a signal that was sent to
\* it; the "exit" event of the last stage resumes the fiber that waits.
stageExit(i, bySignal) ==
    /\ pipeline.stage[i].state = "running"
    /\ bySignal => pipeline.stage[i].sent # {}
    /\ pipeline' = [pipeline EXCEPT
                      !.stage[i].state = IF bySignal THEN "killed" ELSE "exited",
                      !.waiter = IF i = ChainLength /\ @ = "waiting"
                                 THEN "resumed" ELSE @]
    /\ UNCHANGED <<classifyVars, procVars, runVars, streamVars, separate,
                   tree, runs, reader>>

\* The waiting fiber is interrupted: the canceller of effectAsyncInterrupt
\* runs self.process.kill("SIGTERM") on the Process the fiber waits for,
\* and the interruption is complete.
cancelWait ==
    /\ pipeline.waiter = "waiting"
    /\ pipeline' = [pipeline EXCEPT
                      !.stage[ChainLength] = deliver(@, "SIGTERM"),
                      !.waiter = "interrupted"]
    /\ UNCHANGED <<classifyVars, procVars, runVars, streamVars, separate,
                   tree, runs, reader>>

InitCancel ==
    /\ \E n \in 2..MaxChain :
          pipeline = [stage |-> [i \in 1..n |-> NotRun], waiter |-> "none"]
    /\ reader = Unused
    /\ separate = Unused /\ tree = Unused /\ runs = Unused
    /\ pipe = Unused /\ splitter = Unused /\ decoder = Unused /\ merged = Unused
    /\ ProgramUnused

NextCancel ==
    \/ runPipeline
    \/ \E i \in 1..ChainLength : pullStage(i)
    \/ awaitExit
    \/ \E i \in 1..ChainLength, bySignal \in BOOLEAN : stageExit(i, bySignal)
    \/ cancelWait

SpecCancel == InitCancel /\ [][NextCancel]_vars

\* C34: the step that completes the interruption of the exit-code wait
\* on a pipeline leaves every stage that has been started either exited
\* or with a signal sent to it.  The canceller signals the one process the
\* fiber waits for, the last stage's.
C34_NoOrphanedStage ==
    [][(pipeline.waiter = "waiting" /\ pipeline'.waiter = "interrupted") =>
          \A i \in 1..ChainLength :
              pipeline'.stage[i].state = "running" =>
                  pipeline'.stage[i].sent # {}]_vars

====
